---- MODULE Spec2Model ----
(***************************************************************************)
(* icinga2-migration-utils: comparison of an Icinga1 (cache file) and an   *)
(* Icinga2 (REST API) configuration, and migration of downtimes,           *)
(* acknowledgements and notification states from Icinga1 to Icinga2.       *)
(*                                                                         *)
(* Python values are modelled as follows.  A dict is a record; a key that  *)
(* a dict may lack holds Absent when it is missing (reading it with [] is  *)
(* a KeyError, with .get() it is None).  The JSON null / Python None is    *)
(* the value None.  Python booleans are "True" and "False", so that they   *)
(* can sit in the same field as None.  attrs.vars, which the Icinga2 API   *)
(* returns as null for an object without custom variables, is a record     *)
(* whose field kind is None then and DictKind otherwise, beside the keys   *)
(* of the dict.  Floats are the integers they equal.                       *)
(***************************************************************************)
EXTENDS Integers, Sequences, FiniteSets, TLC

Absent == "<absent>"
None == "None"
\* the kind of a value that is a dict (the others: None, and Absent for no key)
DictKind == "dict"
\* the value of a key of an ndict that is missing: an empty nested_dict
EmptyNdict == "{}"

VARIABLES
    \* compare_hosts
    icinga1_hosts,      \* icinga1.get_hosts_dict(): hostname -> host object
    icinga2_hosts,      \* icinga2.get_hosts_dict(): hostname -> host object
    result,             \* compare_hosts: result (defaultdict(list))
    hosts_todo,         \* compare_hosts: hostnames the for loop has yet to visit
    compared,           \* hostnames whose attribute loop (64-76) has completed
    \* compare_services
    icinga1_services_all,        \* icinga1.get_services_by_hostname()
    icinga1_service_status_all,  \* icinga1.get_servicestatus_by_host()
    icinga2_services_all,        \* icinga2.get_services_by_hostname()
    svc_hosts_todo,     \* icinga2_hosts: hostnames the for loop has yet to visit
    diff,               \* compare_services: diff, hostname -> report entry
    total_diff,         \* compare_services: total_diff
    correlation,        \* per visited host: the services line 176 paired, the
                        \* final icinga1_missing_icinga2, notification_states
                        \* and nosla_diff
    \* migrate
    migrator,           \* the migrate_* function that is running
    simulate,           \* its simulate argument
    suffix,             \* its suffix argument
    icinga1,            \* the Source snapshot: hosts, hoststatus, services,
                        \* servicestatus
    icinga2_snapshot,   \* the Target records fetched at the start of the run:
                        \* icinga2_hosts, icinga2_services
    icinga2,            \* the Target store: downtimes, comments, objects
    entities,           \* the list the for loop of the migrator iterates
    position,           \* index in entities of the next entity of the loop
    run,                \* 1 in the first invocation, 2 in the second
    migrate_count,      \* migrate_count (count in the notification migrators)
    error,              \* the exception that ended the run, or None
    log,                \* per entity visited: the existence query and the
                        \* mutating call the iteration made
    icinga2_before,     \* the Target store when the first run started
    \* compare_contacts
    icinga1_contacts,   \* icinga1.contacts
    icinga2_contacts,   \* icinga2.get_users()
    contacts_diff,      \* compare_contacts: diff (defaultdict(list))
    contact_position,   \* index in icinga1_contacts of the next contact
    \* derivation of check_command_extracted
    services_raw,       \* the service records as the two stores return them
    services_extracted, \* the records that carry check_command_extracted
    \* compare_service_contacts
    sc_icinga1_services,    \* icinga1.get_services(hostname)
    sc_icinga2_services,    \* icinga2.get_services_by_hostname(host_name=hostname)
    sc_notifications,       \* icinga2_service_notifications: the user names per
                            \* "hostname!servicename"
    sc_diff,                \* compare_service_contacts: diff
    sc_position,            \* index of the next Icinga1 service of the loop
    sc_log,                 \* per service visited: the name of the counterpart
                            \* and whether line 493 reported different users
    \* Icinga2Config.get_objects_list
    retries,            \* self.retries
    attempts,           \* the outcomes of the calls of self.client.objects.list
    objects_list,       \* what get_objects_list returned or raised
    \* the Source cache
    caller,             \* the comparison or migration function that is running
    icinga1_cache,      \* the records parsed from the object cache files and
                        \* from the status cache files
    events,             \* the reads of the function so far, then its reports
                        \* and mutating operations
    \* parse_icinga_cache
    blocks,             \* the blocks the cache file was written from
    content,            \* content: the text of the cache file
    regex,              \* regex: the name of the regular expression
    source,             \* source: the monitoring server of the file
    match_offset,       \* where re.finditer looks for the next match
    parse_obj,          \* obj
    parse_result,       \* result
    \* Icinga1Config
    _objects,           \* self._objects
    _status,            \* self._status
    _contacts,          \* self._contacts
    _status_properties, \* self._hostdowntimes, self._servicedowntimes,
                        \* self._service_acknowledgements and
                        \* self._host_acknowledgements
    cache_files,        \* the records of the object cache files and of the
                        \* status cache files
    services_api,       \* Icinga2Config.get_services(): the Target services
    objects_first,      \* what the first access to objects returned, empty
                        \* before it
    last_call,          \* the last call of an accessor and what it returned
    calls,              \* the number of accessor calls so far
    pc                  \* "loop", "done" (returned) or "raised"

hostVars == <<icinga1_hosts, icinga2_hosts, result, hosts_todo, compared>>

svcVars == <<icinga1_services_all, icinga1_service_status_all, icinga2_services_all,
             svc_hosts_todo, diff, total_diff, correlation>>

migVars == <<migrator, simulate, suffix, icinga1, icinga2_snapshot, icinga2, entities,
             position, run, migrate_count, error, log, icinga2_before>>

contactVars == <<icinga1_contacts, icinga2_contacts, contacts_diff, contact_position>>

\* the variables of the functions modelled after the migrators
extractVars == <<services_raw, services_extracted>>

serviceContactVars == <<sc_icinga1_services, sc_icinga2_services, sc_notifications,
                        sc_diff, sc_position, sc_log>>

retryVars == <<retries, attempts, objects_list>>

cacheVars == <<caller, icinga1_cache, events>>

parseVars == <<blocks, content, regex, source, match_offset, parse_obj, parse_result>>

configVars == <<cache_files, _objects, _status, _contacts, _status_properties, services_api,
                objects_first, last_call, calls>>

restVars == <<contactVars, extractVars, serviceContactVars, retryVars, cacheVars>>

otherVars == <<restVars, parseVars, configVars>>

vars == <<hostVars, svcVars, migVars, otherVars, pc>>

----------------------------------------------------------------------------
(* Python helpers *)

\* bool(v) for the values of the model
Truthy(v) == v \notin {Absent, None, "False", EmptyNdict, ""}

\* float(s) of the strings the Icinga1 cache holds
Float(s) ==
    CASE s = "1" -> 1
      [] s = "1.0" -> 1
      [] s = "2" -> 2

\* ndict(obj)['attrs']['vars'][key]: remap drops the None values, nested_dict
\* gives an empty nested_dict for every missing key
ndict_vars(obj, key) ==
    IF obj.attrs.vars.kind # DictKind THEN EmptyNdict
    ELSE IF obj.attrs.vars[key] \in {Absent, None} THEN EmptyNdict
    ELSE obj.attrs.vars[key]

\* key in obj['attrs']['vars'] raises TypeError when vars is None
VarsContainsRaises(obj) == obj.attrs.vars.kind # DictKind

\* hostnames in sorted() order
SortedHostnames == <<"db1", "web1">>

Hostnames == {SortedHostnames[i] : i \in DOMAIN SortedHostnames}

Sorted(S) == SelectSeq(SortedHostnames, LAMBDA h : h \in S)

----------------------------------------------------------------------------
(* compare_hosts *)

compare_attributes == <<"check_interval", "max_check_attempts", "retry_interval">>

CompareAttributeSet == {compare_attributes[i] : i \in DOMAIN compare_attributes}

ResultKeys == {"missing", "nosla"} \cup CompareAttributeSet

Icinga1AttribNoRetry(attrib, raw) ==
    IF attrib \in {"check_interval"} THEN Float(raw) * 60 ELSE Float(raw)

\* icinga1_attrib after lines 65-69

Icinga1Attrib(attrib, raw) ==
    IF attrib \in {"retry_interval", "check_interval"}
    THEN Float(raw) * 60
    ELSE Float(raw)

\* the for attrib loop, lines 64-76
CompareAttributes(res, hostname, icinga1_host, icinga2_host) ==
    [k \in DOMAIN res |->
        IF /\ k \in CompareAttributeSet
           /\ Icinga1Attrib(k, icinga1_host[k]) # icinga2_host.attrs[k]
        THEN Append(res[k], <<hostname, icinga1_host[k], icinga2_host.attrs[k]>>)
        ELSE res[k]]

\* the condition of lines 56-57
HostNoslaDiffers(icinga1_host, icinga2_host) ==
    /\ icinga1_host.notes = "no-sla"
    /\ ~Truthy(ndict_vars(icinga2_host, "nosla"))

\* one iteration of for hostname in sorted(icinga1_hosts)
CompareHost ==
    /\ pc = "loop"
    /\ hosts_todo # <<>>
    /\ LET hostname == Head(hosts_todo) IN
        /\ hosts_todo' = Tail(hosts_todo)
        /\ IF hostname \notin DOMAIN icinga2_hosts
           THEN /\ result' = [result EXCEPT !["missing"] = Append(@, hostname)]
                /\ UNCHANGED <<compared, pc>>
           ELSE LET icinga1_host == icinga1_hosts[hostname]
                    icinga2_host == icinga2_hosts[hostname]
                    nosla == HostNoslaDiffers(icinga1_host, icinga2_host)
                    res1 == IF nosla
                            THEN [result EXCEPT !["nosla"] = Append(@, hostname)]
                            ELSE result
                IN  IF nosla /\ VarsContainsRaises(icinga2_host)
                    THEN \* the print of lines 59-62 raises
                         /\ result' = res1
                         /\ pc' = "raised"
                         /\ UNCHANGED compared
                    ELSE /\ result' = CompareAttributes(res1, hostname,
                                                        icinga1_host, icinga2_host)
                         /\ compared' = compared \cup {hostname}
                         /\ UNCHANGED pc
    /\ UNCHANGED <<icinga1_hosts, icinga2_hosts, svcVars, migVars, otherVars>>

\* return result
CompareHostsReturn ==
    /\ pc = "loop"
    /\ hosts_todo = <<>>
    /\ pc' = "done"
    /\ UNCHANGED <<hostVars, svcVars, migVars, otherVars>>

\* the Icinga1 host objects of the model
Icinga1HostObjects ==
    [notes : {"no-sla", Absent},
     check_interval : {"1", "2"},
     max_check_attempts : {"1", "1.0"},
     retry_interval : {"1"}]

Icinga2VarsValues ==
    {[kind |-> None, nosla |-> Absent]} \cup
    [kind : {DictKind}, nosla : {Absent, None, "True", "False"}]

Icinga2HostAttrs ==
    [vars : Icinga2VarsValues,
     check_interval : {60, 120},
     max_check_attempts : {1, 60},
     retry_interval : {60, 1}]

Icinga2HostObjects == [attrs : Icinga2HostAttrs]

\* compare_hosts is called with the two host maps
HostsStart ==
    /\ icinga1_hosts \in [Hostnames -> Icinga1HostObjects]
    /\ \E present \in SUBSET Hostnames :
          icinga2_hosts \in [present -> Icinga2HostObjects]
    /\ result = [k \in ResultKeys |-> <<>>]
    /\ hosts_todo = Sorted(DOMAIN icinga1_hosts)
    /\ compared = {}

\* compare_hosts is not running
HostsIdle ==
    /\ icinga1_hosts = <<>>
    /\ icinga2_hosts = <<>>
    /\ result = <<>>
    /\ hosts_todo = <<>>
    /\ compared = {}

----------------------------------------------------------------------------
(* compare_services *)

InSeq(x, seq) == \E i \in DOMAIN seq : seq[i] = x

\* list.remove(x) inside try / except ValueError: pass
RemoveFirst(seq, x) ==
    IF ~InSeq(x, seq) THEN seq
    ELSE LET i == CHOOSE k \in DOMAIN seq :
                      seq[k] = x /\ \A j \in 1..(k - 1) : seq[j] # x
         IN  SubSeq(seq, 1, i - 1) \o SubSeq(seq, i + 1, Len(seq))

\* dict[key] = value, the dict a sequence of <<key, value>> in insertion order
DictPut(d, key, value) ==
    IF \E i \in DOMAIN d : d[i][1] = key
    THEN [i \in DOMAIN d |-> IF d[i][1] = key THEN <<key, value>> ELSE d[i]]
    ELSE Append(d, <<key, value>>)

\* lines 143-144: filter out nrpe checks on Icinga2
FilterNrpeHealth(services) ==
    SelectSeq(services, LAMBDA service : service.attrs.name # "nrpe-health")

\* lines 147-150
CheckCommands(services) ==
    [i \in DOMAIN services |-> services[i].check_command_extracted]

MissingByCheckCommandInverted(icinga1_check_commands, icinga2_check_commands) ==
    SelectSeq(icinga1_check_commands,
              LAMBDA check_command : InSeq(check_command, icinga2_check_commands))

\* lines 153-155
MissingByCheckCommand(icinga1_check_commands, icinga2_check_commands) ==
    SelectSeq(icinga1_check_commands,
              LAMBDA check_command : ~InSeq(check_command, icinga2_check_commands))

\* lines 158-163: filter checks with same comment
RECURSIVE FilterSameComment(_, _)
FilterSameComment(missing, icinga2_services) ==
    IF icinga2_services = <<>> THEN missing
    ELSE FilterSameComment(
             RemoveFirst(missing, ndict_vars(Head(icinga2_services), "comment")),
             Tail(icinga2_services))

ServicesWithCommand(services, check_command) ==
    SelectSeq(services,
              LAMBDA service : service.check_command_extracted = check_command)

\* lines 183-187
Icinga1State(icinga1_service_states, icinga1_check_command, icinga1_description) ==
    SelectSeq(icinga1_service_states,
              LAMBDA state : /\ state.check_command = icinga1_check_command
                             /\ state.service_description = icinga1_description)

PyBool(b) == IF b THEN "True" ELSE "False"

\* lines 188-192; Absent stands for the KeyError of line 192
Icinga1NotificationsEnabled(service, icinga1_state) ==
    IF icinga1_state # <<>>
    THEN PyBool(icinga1_state[1].notifications_enabled = "1")
    ELSE service.enable_notifications

\* lines 195-198; Absent stands for a KeyError of line 198, None for the
\* TypeError of line 196 (original_attributes is null), which is not caught
Icinga2NotificationsEnabled(service) ==
    LET original == service.attrs.original_attributes IN
    IF original.kind = None THEN None
    ELSE IF original.kind = DictKind /\ original.enable_notifications # Absent
    THEN original.enable_notifications
    ELSE service.attrs.enable_notifications

\* lines 205-210
Icinga1Nosla(service) == PyBool(service.notes = "no-sla")

Icinga2Nosla(service) ==
    IF service.attrs.vars.kind # DictKind \/ service.attrs.vars.nosla = Absent
    THEN "False"
    ELSE service.attrs.vars.nosla

\* the body of the for check_command loop (lines 171-216) for one check
\* command: acc is [notification_states, nosla_diff, notesurl_diff, paired,
\* raised]; lines 215-216 read the two notes_url and store nothing, so that
\* notesurl_diff stays the empty dict of line 168
CompareCheckCommand(acc, check_command, icinga1_services, states, icinga2_services) ==
    LET service_icinga1 == ServicesWithCommand(icinga1_services, check_command)
        service_icinga2 == ServicesWithCommand(icinga2_services, check_command)
    IN  IF service_icinga1 = <<>> \/ service_icinga2 = <<>> THEN acc
        ELSE
        LET s1 == service_icinga1[1]
            s2 == service_icinga2[1]
            key == <<s1.check_command, s1.service_description>>
            icinga1_state == Icinga1State(states, s1.check_command,
                                          s1.service_description)
            n1 == Icinga1NotificationsEnabled(s1, icinga1_state)
            n2 == Icinga2NotificationsEnabled(s2)
            nosla1 == Icinga1Nosla(s1)
            nosla2 == Icinga2Nosla(s2)
            pair == [command |-> check_command, icinga1 |-> s1, icinga2 |-> s2]
        IN  IF n1 = Absent \/ n2 \in {Absent, None}
            THEN [acc EXCEPT !.raised = TRUE, !.paired = @ \cup {pair}]
            ELSE LET acc1 == [acc EXCEPT !.paired = @ \cup {pair},
                                  !.notification_states =
                                      IF n1 # n2 THEN DictPut(@, key, <<n1, n2>>) ELSE @,
                                  !.nosla_diff =
                                      IF nosla1 # nosla2
                                      THEN DictPut(@, key, <<nosla1, nosla2>>) ELSE @]
                 IN  IF s2.attrs.notes_url = Absent
                     THEN [acc1 EXCEPT !.raised = TRUE]    \* KeyError, line 216
                     ELSE acc1

\* for check_command in icinga1_check_commands + icinga2_check_commands
RECURSIVE CompareCheckCommands(_, _, _, _, _)
CompareCheckCommands(acc, commands, icinga1_services, states, icinga2_services) ==
    IF commands = <<>> \/ acc.raised THEN acc
    ELSE CompareCheckCommands(
             CompareCheckCommand(acc, Head(commands), icinga1_services,
                                 states, icinga2_services),
             Tail(commands), icinga1_services, states,
             icinga2_services)

\* list.extend(d) of a dict d with the keys command, icinga1, icinga2 appends
\* the keys of d (lines 234-238, 247-251)
RECURSIVE ExtendWithDicts(_)
ExtendWithDicts(d) ==
    IF d = <<>> THEN <<>>
    ELSE <<"command", "icinga1", "icinga2">> \o ExtendWithDicts(Tail(d))

\* lines 219-272: the entry of diff for the host
DiffEntry(hostname, icinga1_missing_icinga2, notification_states, nosla_diff, notesurl_diff) ==
    [host_name |-> hostname,
     keys |-> {"host_name"}
              \cup (IF icinga1_missing_icinga2 # <<>>
                    THEN {"icinga1_missing_icinga2"} ELSE {})
              \cup (IF notification_states # <<>> THEN {"notification_states"} ELSE {})
              \cup (IF nosla_diff # <<>> THEN {"nosla_diff"} ELSE {})
              \cup (IF notesurl_diff # <<>> THEN {"notesurl_diff"} ELSE {}),
     icinga1_missing_icinga2 |-> icinga1_missing_icinga2,
     notification_states |-> ExtendWithDicts(notification_states),
     nosla_diff |-> ExtendWithDicts(nosla_diff),
     notesurl_diff |-> ExtendWithDicts(notesurl_diff)]

\* defaultdict(list)[hostname]
ServicesOf(services_by_hostname, hostname) ==
    IF hostname \in DOMAIN services_by_hostname
    THEN services_by_hostname[hostname] ELSE <<>>

\* one iteration of for icinga2_hostname in icinga2_hosts (lines 137-272)
CompareServicesHost ==
    /\ pc = "loop"
    /\ svc_hosts_todo # <<>>
    /\ LET icinga2_hostname == Head(svc_hosts_todo)
           icinga1_services == ServicesOf(icinga1_services_all, icinga2_hostname)
           icinga1_service_states ==
               ServicesOf(icinga1_service_status_all, icinga2_hostname)
           icinga2_services ==
               FilterNrpeHealth(ServicesOf(icinga2_services_all, icinga2_hostname))
           icinga1_check_commands == CheckCommands(icinga1_services)
           icinga2_check_commands == CheckCommands(icinga2_services)
           icinga1_missing_icinga2 ==
               FilterSameComment(
                   MissingByCheckCommand(icinga1_check_commands, icinga2_check_commands),
                   icinga2_services)
           acc == CompareCheckCommands(
                      [notification_states |-> <<>>, nosla_diff |-> <<>>,
                       notesurl_diff |-> <<>>, paired |-> {}, raised |-> FALSE],
                      icinga1_check_commands \o icinga2_check_commands,
                      icinga1_services, icinga1_service_states, icinga2_services)
       IN  /\ svc_hosts_todo' = Tail(svc_hosts_todo)
           /\ correlation' =
                  [h \in DOMAIN correlation \cup {icinga2_hostname} |->
                      IF h = icinga2_hostname
                      THEN [paired |-> acc.paired, missing |-> icinga1_missing_icinga2,
                            notification_states |-> acc.notification_states,
                            nosla_diff |-> acc.nosla_diff]
                      ELSE correlation[h]]
           /\ IF acc.raised
              THEN /\ pc' = "raised"
                   /\ UNCHANGED <<diff, total_diff>>
              ELSE /\ pc' = pc
                   /\ IF \/ icinga1_missing_icinga2 # <<>>
                         \/ acc.notification_states # <<>>
                         \/ acc.nosla_diff # <<>>
                      THEN /\ diff' =
                                [h \in DOMAIN diff \cup {icinga2_hostname} |->
                                    IF h = icinga2_hostname
                                    THEN DiffEntry(icinga2_hostname,
                                                   icinga1_missing_icinga2,
                                                   acc.notification_states,
                                                   acc.nosla_diff, acc.notesurl_diff)
                                    ELSE diff[h]]
                           /\ total_diff' = total_diff + Len(icinga1_missing_icinga2)
                                                + Len(acc.notification_states)
                      ELSE UNCHANGED <<diff, total_diff>>
    /\ UNCHANGED <<icinga1_services_all, icinga1_service_status_all,
                   icinga2_services_all, hostVars, migVars, otherVars>>

\* return diff
CompareServicesReturn ==
    /\ pc = "loop"
    /\ svc_hosts_todo = <<>>
    /\ pc' = "done"
    /\ UNCHANGED <<hostVars, svcVars, migVars, otherVars>>

MaxIcinga1Services == 2
MaxIcinga2Services == 3

\* check_command, check_command_extracted and service_description of the
\* Icinga1 services of the model
Icinga1ServiceIdentities ==
    {[check_command |-> "check_http_foo", check_command_extracted |-> "http",
      service_description |-> "HTTP foo"],
     [check_command |-> "check_http_bar", check_command_extracted |-> "http",
      service_description |-> "HTTP bar"],
     [check_command |-> "check_ping_4", check_command_extracted |-> "ping",
      service_description |-> "PING"]}

Icinga1ServiceObjects ==
    {[check_command |-> id.check_command,
      check_command_extracted |-> id.check_command_extracted,
      service_description |-> id.service_description,
      notes |-> notes,
      notes_url |-> Absent,
      notifications_enabled |-> "1",
      enable_notifications |-> Absent] :
        id \in Icinga1ServiceIdentities, notes \in {"no-sla", Absent}}

\* name, check_command_extracted and vars.comment of the Icinga2 services
Icinga2ServiceIdentities ==
    {[name |-> "http", check_command_extracted |-> "http", comment |-> Absent],
     [name |-> "ping", check_command_extracted |-> "ping", comment |-> Absent],
     [name |-> "nrpe-health", check_command_extracted |-> "nrpe", comment |-> Absent],
     [name |-> "web", check_command_extracted |-> "web", comment |-> "http"]}

\* the health-check service is filtered out: one object is enough for it
Icinga2ServiceObjects ==
    {[check_command_extracted |-> id.check_command_extracted,
      attrs |-> [name |-> id.name,
                 vars |-> IF id.comment = Absent /\ nosla = Absent
                          THEN [kind |-> None, nosla |-> Absent, comment |-> Absent]
                          ELSE [kind |-> DictKind, nosla |-> nosla,
                                comment |-> id.comment],
                 enable_notifications |-> enabled,
                 original_attributes |->
                     [kind |-> Absent, enable_notifications |-> Absent],
                 notes_url |-> ""]] :
        id \in Icinga2ServiceIdentities,
        nosla \in {Absent, "True"},
        enabled \in {"True", "False"}}
    \ {service \in [check_command_extracted : {"nrpe"},
                     attrs : [name : {"nrpe-health"},
                              vars : {[kind |-> None, nosla |-> Absent,
                                       comment |-> Absent],
                                      [kind |-> DictKind, nosla |-> "True",
                                       comment |-> Absent]},
                              enable_notifications : {"True", "False"},
                              original_attributes :
                                  {[kind |-> Absent, enable_notifications |-> Absent]},
                              notes_url : {""}]] :
            service.attrs.vars.kind = DictKind
            \/ service.attrs.enable_notifications = "False"}

\* the lists of at most n objects of S no two of which have the same name
ListsOfDistinct(S, n, name) ==
    UNION {{l \in [1..k -> S] :
               \A i, j \in 1..k : i # j => name[l[i]] # name[l[j]]} : k \in 0..n}

\* the lists of at most n objects of S with strictly increasing rank
ListsInOrder(S, n, rank) ==
    UNION {{l \in [1..k -> S] :
               \A i, j \in 1..k : i < j => rank[l[i]] < rank[l[j]]} : k \in 0..n}

\* the order the Icinga2 services of a host are listed in: no two Icinga2
\* services of the model have the same check command, so that their order
\* decides nothing but the order of the report
Icinga2ServiceRank(service) ==
    CASE service.attrs.name = "nrpe-health" -> 1
      [] service.attrs.name = "http" -> 2
      [] service.attrs.name = "ping" -> 3
      [] service.attrs.name = "web" -> 4

Icinga1ServiceName(service) == service.service_description

\* the status records of a list of services: for each service none, or one
\* with notifications_enabled "0" or "1"
RECURSIVE StatusLists(_)
StatusLists(services) ==
    IF services = <<>> THEN {<<>>}
    ELSE LET rest == StatusLists(Tail(services))
             service == Head(services)
         IN  rest \cup
             {<<[check_command |-> service.check_command,
                 service_description |-> service.service_description,
                 notifications_enabled |-> enabled]>> \o l :
                  enabled \in {"0", "1"}, l \in rest}

\* compare_services(hostname="web1") is called
ServicesStart ==
    /\ \E l \in ListsInOrder(Icinga2ServiceObjects, MaxIcinga2Services,
                 [s \in Icinga2ServiceObjects |-> Icinga2ServiceRank(s)]) :
          icinga2_services_all = [h \in {"web1"} |-> l]
    /\ \E l \in ListsOfDistinct(Icinga1ServiceObjects, MaxIcinga1Services,
                 [s \in Icinga1ServiceObjects |-> Icinga1ServiceName(s)]) :
          /\ icinga1_services_all = [h \in {"web1"} |-> l]
          /\ \E st \in StatusLists(l) :
                icinga1_service_status_all = [h \in {"web1"} |-> st]
    /\ svc_hosts_todo = <<"web1">>
    /\ diff = <<>>
    /\ total_diff = 0
    /\ correlation = <<>>

\* compare_services(hostname="web1") is called for a host with one Icinga1
\* service and one Icinga2 service of the same extracted check command.  An
\* Icinga1 service object has the key notifications_enabled and no key
\* enable_notifications (icinga1.py 310); notes and notes_url are optional.
\* The Icinga2 API returns original_attributes as null for an object that was
\* not modified at runtime, and leaves out the attributes that were not asked
\* for (icinga2.py 84-86).
ServicePairStart ==
    /\ \E notes \in {"no-sla", Absent}, notes_url \in {Absent, "https://wiki/http"}, enabled \in {"0", "1"} :
          icinga1_services_all =
              [h \in {"web1"} |->
                  << [check_command |-> "check_http_foo", check_command_extracted |-> "http",
                      service_description |-> "HTTP foo", notes |-> notes, notes_url |-> notes_url,
                      notifications_enabled |-> enabled, enable_notifications |-> Absent] >>]
    /\ icinga1_service_status_all \in
          { [h \in {"web1"} |-> st] :
               st \in { <<>> } \cup { << [check_command |-> "check_http_foo", service_description |-> "HTTP foo",
                                            notifications_enabled |-> enabled] >> : enabled \in {"0", "1"} } }
    /\ \E enabled \in {"True", "False"}, notes_url \in {Absent, "", "https://wiki/http", "https://wiki/web"},
          nosla \in {Absent, "True"},
          original \in { [kind |-> Absent, enable_notifications |-> Absent],
                         [kind |-> None, enable_notifications |-> Absent],
                         [kind |-> DictKind, enable_notifications |-> Absent],
                         [kind |-> DictKind, enable_notifications |-> "True"],
                         [kind |-> DictKind, enable_notifications |-> "False"] } :
          icinga2_services_all =
              [h \in {"web1"} |->
                  << [check_command_extracted |-> "http",
                      attrs |-> [name |-> "http",
                                 vars |-> IF nosla = Absent
                                          THEN [kind |-> None, nosla |-> Absent, comment |-> Absent]
                                          ELSE [kind |-> DictKind, nosla |-> nosla, comment |-> Absent],
                                 enable_notifications |-> enabled,
                                 original_attributes |-> original,
                                 notes_url |-> notes_url]] >>]
    /\ svc_hosts_todo = <<"web1">>
    /\ diff = <<>>
    /\ total_diff = 0
    /\ correlation = <<>>

\* compare_services is not running
ServicesIdle ==
    /\ icinga1_services_all = <<>>
    /\ icinga1_service_status_all = <<>>
    /\ icinga2_services_all = <<>>
    /\ svc_hosts_todo = <<>>
    /\ diff = <<>>
    /\ total_diff = 0
    /\ correlation = <<>>

----------------------------------------------------------------------------
(* migrate: the Target store *)

\* the attribute of a Downtime object a key of the query of get_downtimes
\* names
DowntimeAttribute ==
    [host_name |-> "host_name", service_name |-> "service_name",
     author |-> "author", comment |-> "comment", start_time |-> "start_time",
     end_time |-> "end_time", duration |-> "duration", fixed |-> "fixed",
     downtime_author |-> "author", downtime_comment |-> "comment",
     downtime_start_time |-> "start_time", downtime_end_time |-> "end_time",
     downtime_duration |-> "duration", downtime_fixed |-> "fixed"]

\* Icinga2Config.get_downtimes(**query): the Downtime objects of the store
\* that satisfy the conjunction of key == value over the keys of the query
get_downtimes(store, query) ==
    SelectSeq(store.downtimes,
              LAMBDA dt : \A key \in DOMAIN query :
                              dt[DowntimeAttribute[key]] = query[key])

\* the Downtime object schedule_downtime creates
NewDowntime(host_name, service_name, author, comment, start_time, end_time, duration, fixed) ==
    [host_name |-> host_name, service_name |-> service_name, author |-> author,
     comment |-> comment, start_time |-> start_time, end_time |-> end_time,
     duration |-> duration, fixed |-> fixed]

\* Icinga2Config.schedule_host_downtime when the action creates a downtime
schedule_host_downtime(store, f) ==
    [store EXCEPT !.downtimes =
        Append(@, NewDowntime(f.host_name, None, f.author, f.comment, f.start_time,
                              f.end_time, f.duration, f.fixed))]

\* Icinga2Config.schedule_service_downtime when the action creates a downtime
schedule_service_downtime(store, f) ==
    [store EXCEPT !.downtimes =
        Append(@, NewDowntime(f.host_name, f.service_name, f.downtime_author,
                              f.downtime_comment, f.downtime_start_time,
                              f.downtime_end_time, f.downtime_duration,
                              f.downtime_fixed))]

\* Icinga2Config.get_acknowledgements: the Comment objects of the store that
\* satisfy the conjunction of the filters of the arguments that are truthy
get_acknowledgements(store, host_name, author, comment, service_name) ==
    SelectSeq(store.comments,
              LAMBDA c : /\ Truthy(host_name) => c.host_name = host_name
                         /\ Truthy(author) => c.author = author
                         /\ Truthy(comment) => c.text = comment
                         /\ Truthy(service_name) => c.service_name = service_name)

\* the Comment object acknowledge_problem creates
NewComment(host_name, service_name, author, text) ==
    [host_name |-> host_name, service_name |-> service_name, author |-> author,
     text |-> text]

\* Icinga2Config.acknowledge_service when the response has code 200
acknowledge_service(store, host_name, service_name, author, comment) ==
    [store EXCEPT !.comments =
        Append(@, NewComment(host_name, service_name, author, comment))]

\* Icinga2Config.acknowledge_host when the response has code 200
acknowledge_host(store, host_name, author, comment) ==
    [store EXCEPT !.comments = Append(@, NewComment(host_name, None, author, comment))]

\* client.objects.update(type, name, {'attrs': {'enable_notifications':
\* enabled, 'notes': notes}}) when the request succeeds
objects_update(store, name, enabled, notes) ==
    [store EXCEPT !.objects =
        [n \in DOMAIN @ \cup {name} |->
            IF n = name THEN [enable_notifications |-> enabled, notes |-> notes]
            ELSE @[n]]]

\* Icinga2Config.set_host_notifications
set_host_notifications(store, hostname, enabled, notes) ==
    objects_update(store, hostname, enabled, notes)

\* Icinga2Config.set_service_notifications
set_service_notifications(store, hostname, servicename, enabled, notes) ==
    objects_update(store, hostname \o "!" \o servicename, enabled, notes)

\* what the Target API does with a request: it answers, it answers with no
\* result, or the client raises Icinga2ApiException
ApiOutcomes == {"ok", "no results", "Icinga2ApiException"}

----------------------------------------------------------------------------
(* migrate: downtimes *)

\* int() of the time fields of the status file
int(s) == CASE s = "100" -> 100 [] s = "200" -> 200 [] s = "3600" -> 3600

\* lines 27-29 and 91-93: 'daily' not in comment.lower() and 'weekly' not in
\* comment.lower(), for the comments of the model
IsRecurring(comment) == comment \in {"Daily backup", "weekly reboot"}

FilterRecurring(downtimes) ==
    SelectSeq(downtimes, LAMBDA dt : ~IsRecurring(dt.comment))

\* lines 31-32: if hostname: keep the entities of that host
FilterHostname(list, hostname) ==
    IF hostname = None THEN list
    ELSE SelectSeq(list, LAMBDA e : e.host_name = hostname)

\* lines 50-58: downtime_filter of migrate_host_downtimes
HostDowntimeFilter(downtime, sfx) ==
    [host_name |-> downtime.host_name,
     author |-> downtime.author,
     comment |-> downtime.comment \o sfx,
     start_time |-> int(downtime.start_time),
     end_time |-> int(downtime.end_time),
     duration |-> int(downtime.duration),
     fixed |-> (downtime.fixed = "1")]

\* lines 60-63: downtime_exists; the except clause turns a failed query into
\* False
DowntimeExists(store, downtime_filter, query) ==
    IF query = "Icinga2ApiException" THEN FALSE
    ELSE get_downtimes(store, downtime_filter) # <<>>

\* the log entry of one loop iteration
LogEntry(query, filter, call, args, outcome) ==
    [run |-> run, position |-> position, query |-> query, filter |-> filter,
     call |-> call, args |-> args, outcome |-> outcome]

\* an iteration that queried nothing and called nothing
Skipped == LogEntry("none", <<>>, "none", <<>>, "none")

\* lines 65-69 without the test of simulate
HostDowntimeBranchIgnoresSimulate(downtime_exists, sim) ==
    IF downtime_exists THEN "exists" ELSE "schedule"

\* the branch of lines 65-69 taken: "exists", "schedule" or "nothing"
HostDowntimeBranch(downtime_exists, sim) ==
    IF downtime_exists THEN "exists"
    ELSE IF ~sim THEN "schedule" ELSE "nothing"

\* one iteration of for downtime in downtimes (lines 37-69)
MigrateHostDowntime ==
    /\ pc = "loop"
    /\ migrator = "migrate_host_downtimes"
    /\ position <= Len(entities)
    /\ LET downtime == entities[position]
           downtime_filter == HostDowntimeFilter(downtime, suffix)
       IN  IF downtime.host_name \notin icinga2_snapshot.icinga2_hosts
           THEN /\ log' = Append(log, Skipped)
                /\ position' = position + 1
                /\ UNCHANGED <<icinga2, migrate_count, error, pc>>
           ELSE \E query \in {"ok", "Icinga2ApiException"} :
                LET downtime_exists == DowntimeExists(icinga2, downtime_filter, query)
                    found == IF query = "ok"
                             THEN IF downtime_exists THEN "match" ELSE "empty"
                             ELSE "error"
                    branch == HostDowntimeBranch(downtime_exists, simulate)
                IN  IF branch # "schedule"
                    THEN /\ log' = Append(log, LogEntry(found, downtime_filter,
                                                        "none", <<>>, "none"))
                         /\ position' = position + 1
                         /\ UNCHANGED <<icinga2, migrate_count, error, pc>>
                    ELSE \E response \in ApiOutcomes :
                         /\ log' = Append(log, LogEntry(found, downtime_filter,
                                                        "schedule_host_downtime",
                                                        downtime_filter, response))
                         /\ migrate_count' = migrate_count + 1
                         /\ icinga2' = IF response = "ok"
                                       THEN schedule_host_downtime(icinga2, downtime_filter)
                                       ELSE icinga2
                         /\ IF response = "Icinga2ApiException"
                            THEN /\ pc' = "raised"
                                 /\ error' = "Icinga2ApiException"
                                 /\ UNCHANGED position
                            ELSE /\ position' = position + 1
                                 /\ UNCHANGED <<error, pc>>
    /\ UNCHANGED <<migrator, simulate, suffix, icinga1, icinga2_snapshot, entities, run,
                   icinga2_before, hostVars, svcVars, otherVars>>

\* lines 114-116: the Icinga1 services of the host with the service
\* description of the entity
ServicesWithDescription(icinga1_services, description) ==
    SelectSeq(icinga1_services,
              LAMBDA service : service.service_description = description)

\* lines 118-122: the Icinga2 services of the host with the extracted check
\* command of the Icinga1 service, or whose vars.comment is its check_command
DowntimeServicesIcinga2(icinga2_services, service_icinga1) ==
    SelectSeq(icinga2_services,
              LAMBDA service :
                  \/ service.check_command_extracted
                         = service_icinga1.check_command_extracted
                  \/ ndict_vars(service, "comment") = service_icinga1.check_command)

\* lines 146-155: downtime_filter of migrate_service_downtimes
ServiceDowntimeFilter(downtime, service_name, sfx) ==
    [host_name |-> downtime.host_name,
     service_name |-> service_name,
     downtime_author |-> downtime.author,
     downtime_comment |-> downtime.comment \o sfx,
     downtime_start_time |-> int(downtime.start_time),
     downtime_end_time |-> int(downtime.end_time),
     downtime_duration |-> int(downtime.duration),
     downtime_fixed |-> (downtime.fixed = "1")]

\* the branch of lines 160-166 taken: "exists", "schedule" or "nothing"
ServiceDowntimeBranch(downtime_exists, sim) ==
    IF downtime_exists THEN "exists"
    ELSE IF ~sim THEN "schedule" ELSE "nothing"

\* one iteration of for downtime in downtimes (lines 101-166)
MigrateServiceDowntime ==
    /\ pc = "loop"
    /\ migrator = "migrate_service_downtimes"
    /\ position <= Len(entities)
    /\ LET downtime == entities[position]
           dt_hostname == downtime.host_name
           with_description ==
               ServicesWithDescription(ServicesOf(icinga1.services, dt_hostname),
                                       downtime.service_description)
       IN  IF dt_hostname \notin icinga2_snapshot.icinga2_hosts
           THEN /\ log' = Append(log, Skipped)
                /\ position' = position + 1
                /\ UNCHANGED <<icinga2, migrate_count, error, pc>>
           ELSE IF with_description = <<>>
           THEN \* [...][0] of line 116 on an empty list
                /\ pc' = "raised"
                /\ error' = "IndexError"
                /\ UNCHANGED <<icinga2, migrate_count, position, log>>
           ELSE
           LET service_icinga1 == with_description[1]
               services_icinga2 ==
                   DowntimeServicesIcinga2(
                       ServicesOf(icinga2_snapshot.icinga2_services, dt_hostname),
                       service_icinga1)
           IN  IF services_icinga2 = <<>>
               THEN /\ log' = Append(log, Skipped)
                    /\ position' = position + 1
                    /\ UNCHANGED <<icinga2, migrate_count, error, pc>>
               ELSE
               LET service_name == services_icinga2[1].attrs.name
                   downtime_filter == ServiceDowntimeFilter(downtime, service_name, suffix)
               IN  \E query \in {"ok", "Icinga2ApiException"} :
                   LET downtime_exists == DowntimeExists(icinga2, downtime_filter, query)
                       found == IF query = "ok"
                                THEN IF downtime_exists THEN "match" ELSE "empty"
                                ELSE "error"
                       branch == ServiceDowntimeBranch(downtime_exists, simulate)
                   IN  IF branch # "schedule"
                       THEN /\ log' = Append(log, LogEntry(found, downtime_filter,
                                                           "none", <<>>, "none"))
                            /\ position' = position + 1
                            /\ UNCHANGED <<icinga2, migrate_count, error, pc>>
                       ELSE \E response \in ApiOutcomes :
                            /\ log' = Append(log, LogEntry(found, downtime_filter,
                                                           "schedule_service_downtime",
                                                           downtime_filter, response))
                            /\ migrate_count' = migrate_count + 1
                            /\ icinga2' =
                                   IF response = "ok"
                                   THEN schedule_service_downtime(icinga2, downtime_filter)
                                   ELSE icinga2
                            /\ IF response = "Icinga2ApiException"
                               THEN /\ pc' = "raised"
                                    /\ error' = "Icinga2ApiException"
                                    /\ UNCHANGED position
                               ELSE /\ position' = position + 1
                                    /\ UNCHANGED <<error, pc>>
    /\ UNCHANGED <<migrator, simulate, suffix, icinga1, icinga2_snapshot, entities, run,
                   icinga2_before, hostVars, svcVars, otherVars>>

----------------------------------------------------------------------------
(* migrate: acknowledgements *)

\* lines 53-57: the Icinga2 services of the host with the extracted check
\* command of the Icinga1 service, or whose vars.comment is that command
AckServicesIcinga2(icinga2_services, service_icinga1) ==
    SelectSeq(icinga2_services,
              LAMBDA service :
                  \/ service.check_command_extracted
                         = service_icinga1.check_command_extracted
                  \/ ndict_vars(service, "comment")
                         = service_icinga1.check_command_extracted)

\* the arguments of get_acknowledgements and acknowledge_service / _host
AckArguments(ack, service_name, sfx) ==
    [host_name |-> ack.host_name, service_name |-> service_name,
     author |-> ack.author, comment |-> ack.comment_data \o sfx]

\* lines 63-82 and 117-132: "would" in simulate mode, else "query"
AckBranch(sim) == IF sim THEN "would" ELSE "query"

\* the part of an iteration both acknowledgement migrators share (lines
\* 63-82, 117-132): the existence query and the acknowledge call
Acknowledge(arguments, call, target_has_object) ==
    IF AckBranch(simulate) = "would"
    THEN /\ log' = Append(log, Skipped)
         /\ position' = position + 1
         /\ UNCHANGED <<icinga2, migrate_count, error, pc>>
    ELSE \E query \in {"ok", "Icinga2ApiException"} :
         LET existing == get_acknowledgements(icinga2, arguments.host_name,
                                              arguments.author, arguments.comment,
                                              arguments.service_name)
         IN  IF query = "Icinga2ApiException"
             THEN /\ log' = Append(log, LogEntry("error", arguments, "none", <<>>, "none"))
                  /\ pc' = "raised"
                  /\ error' = "Icinga2ApiException"
                  /\ UNCHANGED <<icinga2, migrate_count, position>>
             ELSE IF existing # <<>>
             THEN /\ log' = Append(log, LogEntry("match", arguments, "none", <<>>, "none"))
                  /\ position' = position + 1
                  /\ UNCHANGED <<icinga2, migrate_count, error, pc>>
             ELSE \E response \in IF target_has_object THEN ApiOutcomes
                                  ELSE ApiOutcomes \ {"ok"} :
                  /\ log' = Append(log, LogEntry("empty", arguments, call, arguments,
                                                 response))
                  /\ icinga2' =
                         IF response # "ok" THEN icinga2
                         ELSE IF call = "acknowledge_host"
                         THEN acknowledge_host(icinga2, arguments.host_name,
                                               arguments.author, arguments.comment)
                         ELSE acknowledge_service(icinga2, arguments.host_name,
                                                  arguments.service_name,
                                                  arguments.author, arguments.comment)
                  /\ migrate_count' = IF response = "ok" THEN migrate_count + 1
                                      ELSE migrate_count
                  /\ IF response = "Icinga2ApiException"
                     THEN /\ pc' = "raised"
                          /\ error' = "Icinga2ApiException"
                          /\ UNCHANGED position
                     ELSE /\ position' = position + 1
                          /\ UNCHANGED <<error, pc>>

\* one iteration of for ack in icinga1_acks (lines 41-82)
MigrateServiceAcknowledgement ==
    /\ pc = "loop"
    /\ migrator = "migrate_service_acknowledgements"
    /\ position <= Len(entities)
    /\ LET ack == entities[position]
           ack_hostname == ack.host_name
           services_icinga1 ==
               ServicesWithDescription(ServicesOf(icinga1.services, ack_hostname),
                                       ack.service_description)
       IN  IF ack_hostname \notin icinga2_snapshot.icinga2_hosts
           THEN /\ log' = Append(log, Skipped)
                /\ position' = position + 1
                /\ UNCHANGED <<icinga2, migrate_count, error, pc>>
           ELSE IF Len(services_icinga1) # 1
           THEN \* assert len(services_icinga1) == 1
                /\ pc' = "raised"
                /\ error' = "AssertionError"
                /\ UNCHANGED <<icinga2, migrate_count, position, log>>
           ELSE
           LET services_icinga2 ==
                   AckServicesIcinga2(
                       ServicesOf(icinga2_snapshot.icinga2_services, ack_hostname),
                       services_icinga1[1])
           IN  IF services_icinga2 = <<>>
               THEN /\ log' = Append(log, Skipped)
                    /\ position' = position + 1
                    /\ UNCHANGED <<icinga2, migrate_count, error, pc>>
               ELSE Acknowledge(AckArguments(ack, services_icinga2[1].attrs.name, suffix),
                                "acknowledge_service", TRUE)
    /\ UNCHANGED <<migrator, simulate, suffix, icinga1, icinga2_snapshot, entities, run,
                   icinga2_before, hostVars, svcVars, otherVars>>

\* one iteration of for ack in icinga1_host_acks (lines 113-132)
MigrateHostAcknowledgement ==
    /\ pc = "loop"
    /\ migrator = "migrate_host_acknowledgements"
    /\ position <= Len(entities)
    /\ LET ack == entities[position] IN
       Acknowledge(AckArguments(ack, None, suffix), "acknowledge_host",
                   ack.host_name \in icinga2_snapshot.icinga2_hosts)
    /\ UNCHANGED <<migrator, simulate, suffix, icinga1, icinga2_snapshot, entities, run,
                   icinga2_before, hostVars, svcVars, otherVars>>

----------------------------------------------------------------------------
(* migrate: notification states *)

\* notes of the update calls
MigratedNotes(sfx) == "Migrated notification state from Icinga1" \o sfx

\* lines 47-50: host_enabled and not host_status_enabled
HostStateDiverged(host, status) ==
    host.notifications_enabled = "1" /\ ~(status.notifications_enabled = "1")

\* one iteration of for hostname in hostnames (lines 41-62)
MigrateHostNotificationState ==
    /\ pc = "loop"
    /\ migrator = "migrate_host_notification_states"
    /\ position <= Len(entities)
    /\ LET hostname == entities[position]
           notes == MigratedNotes(suffix)
           arguments == [hostname |-> hostname, enabled |-> FALSE, notes |-> notes]
       IN  IF \/ hostname \notin DOMAIN icinga1.hosts
              \/ hostname \notin icinga2_snapshot.icinga2_hosts
           THEN /\ log' = Append(log, Skipped)
                /\ position' = position + 1
                /\ UNCHANGED <<icinga2, migrate_count, error, pc>>
           ELSE IF hostname \notin DOMAIN icinga1.hoststatus
           THEN \* icinga1_status_dict[hostname] of line 48
                /\ pc' = "raised"
                /\ error' = "KeyError"
                /\ UNCHANGED <<icinga2, migrate_count, position, log>>
           ELSE IF \/ ~HostStateDiverged(icinga1.hosts[hostname],
                                         icinga1.hoststatus[hostname])
                   \/ simulate
           THEN /\ log' = Append(log, Skipped)
                /\ position' = position + 1
                /\ UNCHANGED <<icinga2, migrate_count, error, pc>>
           ELSE \E response \in {"ok", "Icinga2ApiException"} :
                /\ log' = Append(log, LogEntry("none", <<>>, "set_host_notifications",
                                               arguments, response))
                /\ icinga2' = IF response = "ok"
                              THEN set_host_notifications(icinga2, hostname, FALSE, notes)
                              ELSE icinga2
                /\ position' = position + 1
                /\ UNCHANGED <<migrate_count, error, pc>>
    /\ UNCHANGED <<migrator, simulate, suffix, icinga1, icinga2_snapshot, entities, run,
                   icinga2_before, hostVars, svcVars, otherVars>>

\* lines 117-118: the status records with the check_command of the service
ServiceStates(service_states, service) ==
    SelectSeq(service_states,
              LAMBDA state : state.check_command = service.check_command)

\* lines 127-130: the Icinga2 services with the extracted check command of
\* the service
NotificationServicesIcinga2(icinga2_services, service) ==
    SelectSeq(icinga2_services,
              LAMBDA x : x.check_command_extracted = service.check_command_extracted)

\* lines 119-134: the name of the Icinga2 service whose notifications the
\* iteration for the service disables, or None
ServiceToDisable(service, service_states, icinga2_services) ==
    LET service_state == ServiceStates(service_states, service)
        icinga2_service == NotificationServicesIcinga2(icinga2_services, service)
    IN  IF /\ service_state # <<>>
           /\ service.notifications_enabled = "1"
           /\ service_state[1].notifications_enabled = "0"
           /\ Len(icinga2_service) = 1
           /\ icinga2_service[1].attrs.enable_notifications
        THEN icinga2_service[1].attrs.name
        ELSE None

\* for service in services (lines 114-157): acc is [store, count, log], and
\* responses[i] is what the Target does with the update of services[i]
RECURSIVE MigrateServiceStates(_, _, _, _, _, _)
MigrateServiceStates(acc, hostname, services, service_states, icinga2_services, responses) ==
    IF services = <<>> THEN acc
    ELSE LET service_name == ServiceToDisable(Head(services), service_states,
                                              icinga2_services)
             notes == MigratedNotes(suffix)
             arguments == [hostname |-> hostname, servicename |-> service_name,
                           enabled |-> FALSE, notes |-> notes]
             response == Head(responses)
             acc1 ==
                 IF service_name = None \/ simulate
                 THEN [acc EXCEPT !.log = Append(@, Skipped)]
                 ELSE [store |-> IF response = "ok"
                                 THEN set_service_notifications(acc.store, hostname,
                                                                service_name, FALSE, notes)
                                 ELSE acc.store,
                       count |-> IF response = "ok" THEN acc.count + 1 ELSE acc.count,
                       log |-> Append(acc.log,
                                      LogEntry("none", <<>>, "set_service_notifications",
                                               arguments, response))]
         IN  MigrateServiceStates(acc1, hostname, Tail(services), service_states,
                                  icinga2_services, Tail(responses))

\* one iteration of for hostname in hostnames (lines 107-157)
MigrateServiceNotificationState ==
    /\ pc = "loop"
    /\ migrator = "migrate_service_notification_states"
    /\ position <= Len(entities)
    /\ LET hostname == entities[position]
           services == ServicesOf(icinga1.services, hostname)
           service_states == ServicesOf(icinga1.servicestatus, hostname)
       IN  IF hostname \notin icinga2_snapshot.icinga2_hosts
           THEN /\ log' = Append(log, Skipped)
                /\ UNCHANGED <<icinga2, migrate_count>>
           ELSE \E responses \in [1..Len(services) -> {"ok", "Icinga2ApiException"}] :
                LET acc == MigrateServiceStates(
                               [store |-> icinga2, count |-> migrate_count, log |-> log],
                               hostname, services, service_states,
                               ServicesOf(icinga2_snapshot.icinga2_services, hostname),
                               responses)
                IN  /\ icinga2' = acc.store
                    /\ migrate_count' = acc.count
                    /\ log' = acc.log
    /\ position' = position + 1
    /\ UNCHANGED <<migrator, simulate, suffix, icinga1, icinga2_snapshot, entities, run,
                   icinga2_before, error, pc, hostVars, svcVars, otherVars>>

\* the end of the loop: the summary is logged and the function returns
MigrateReturn ==
    /\ pc = "loop"
    /\ migrator # None
    /\ position > Len(entities)
    /\ pc' = "done"
    /\ UNCHANGED <<hostVars, svcVars, migVars, otherVars>>

\* the same migrator is invoked a second time with the same arguments on the
\* same Source files; the Target is as the first run left it
MigrateAgain ==
    /\ pc = "done"
    /\ migrator # None
    /\ run = 1
    /\ run' = 2
    /\ position' = 1
    /\ migrate_count' = 0
    /\ pc' = "loop"
    /\ UNCHANGED <<migrator, simulate, suffix, icinga1, icinga2_snapshot, icinga2,
                   entities, error, log, icinga2_before, hostVars, svcVars, otherVars>>

\* the suffix argument
Suffixes == {" [migrated]"}

\* the most entities a status file of the model holds
MaxEntities == 2

\* the lists of at most n elements of S
ListsOf(S, n) == UNION {[1..k -> S] : k \in 0..n}

Icinga1HostDowntimes ==
    [host_name : {"web1", "gone1"}, author : {"admin"},
     comment : {"maint", "Daily backup"},
     start_time : {"100"}, end_time : {"200"}, duration : {"100"},
     fixed : {"1", "0"}]

\* the Downtime objects the Target may hold before the migration
Icinga2Downtimes ==
    {NewDowntime("web1", None, "admin", "maint" \o sfx, 100, 200, 100, TRUE) :
         sfx \in Suffixes}

\* the hostname argument
HostnameArguments == {None, "web1"}

EmptyIcinga1 == [hosts |-> <<>>, hoststatus |-> <<>>, services |-> <<>>,
                 servicestatus |-> <<>>]

\* the state every migrator starts its first run in
MigrateEntry(name) ==
    /\ migrator = name
    /\ simulate \in BOOLEAN
    /\ suffix \in Suffixes
    /\ position = 1
    /\ run = 1
    /\ migrate_count = 0
    /\ error = None
    /\ log = <<>>
    /\ icinga2_before = icinga2

\* migrate_host_downtimes is called (lines 23-35)
HostDowntimesStart ==
    /\ icinga1 = EmptyIcinga1
    /\ icinga2_snapshot = [icinga2_hosts |-> {"web1"}, icinga2_services |-> <<>>]
    /\ \E l \in ListsOf(Icinga2Downtimes, 1) :
          icinga2 = [downtimes |-> l, comments |-> <<>>, objects |-> <<>>]
    /\ \E l \in ListsOf(Icinga1HostDowntimes, MaxEntities), hostname \in HostnameArguments :
          entities = FilterHostname(FilterRecurring(l), hostname)
    /\ MigrateEntry("migrate_host_downtimes")

Icinga1ServiceDowntimes ==
    [host_name : {"web1", "gone1"}, service_description : {"HTTP", "PING"},
     author : {"admin"}, comment : {"maint", "weekly reboot"},
     start_time : {"100"}, end_time : {"200"}, duration : {"100"}, fixed : {"1"}]

\* an Icinga1 service object of host web1
Icinga1Service(description, command, extracted, enabled) ==
    [host_name |-> "web1", service_description |-> description,
     check_command |-> command, check_command_extracted |-> extracted,
     notifications_enabled |-> enabled]

\* the lists icinga1.get_services_by_hostname() holds for web1: both
\* monitoring sources may define a service
Icinga1ServiceLists(enabled) ==
    LET http == Icinga1Service("HTTP", "check_http_foo", "http", enabled)
        ping == Icinga1Service("PING", "check_ping_4", "ping", "1")
    IN  {<<>>, <<http>>, <<http, http>>, <<http, ping>>}

\* an Icinga2 service object of host web1
Icinga2Service(name, extracted, comment, enabled) ==
    [check_command_extracted |-> extracted,
     attrs |-> [name |-> name,
                vars |-> IF comment = Absent
                         THEN [kind |-> None, comment |-> Absent]
                         ELSE [kind |-> DictKind, comment |-> comment],
                enable_notifications |-> enabled]]

\* the lists icinga2.get_services_by_hostname() holds for web1
Icinga2ServiceLists(enabled) ==
    LET http == Icinga2Service("http", "http", Absent, enabled)
        alt == Icinga2Service("http-alt", "http", Absent, TRUE)
        ping == Icinga2Service("ping", "ping", Absent, TRUE)
        by_command == Icinga2Service("web", "web", "check_http_foo", TRUE)
        by_extracted == Icinga2Service("www", "www", "http", TRUE)
    IN  {<<>>, <<http>>, <<http, alt>>, <<ping, http>>, <<by_command>>, <<by_extracted>>}

\* migrate_service_downtimes is called (lines 84-99)
ServiceDowntimesStart ==
    /\ \E l \in Icinga1ServiceLists("1") :
          icinga1 = [EmptyIcinga1 EXCEPT !.services = [h \in {"web1"} |-> l]]
    /\ \E l \in Icinga2ServiceLists(TRUE) :
          icinga2_snapshot = [icinga2_hosts |-> {"web1"},
                              icinga2_services |-> [h \in {"web1"} |-> l]]
    /\ \E l \in ListsOf({NewDowntime("web1", "http", "admin", "maint" \o sfx,
                                     100, 200, 100, TRUE) : sfx \in Suffixes}, 1) :
          icinga2 = [downtimes |-> l, comments |-> <<>>, objects |-> <<>>]
    /\ \E l \in ListsOf(Icinga1ServiceDowntimes, MaxEntities), hostname \in HostnameArguments :
          entities = FilterHostname(FilterRecurring(l), hostname)
    /\ MigrateEntry("migrate_service_downtimes")

\* icinga1.host_acknowledgements
Icinga1HostAcknowledgements ==
    [host_name : {"web1", "gone1"}, author : {"admin"},
     comment_data : {"broken", "known"}]

\* icinga1.service_acknowledgements
Icinga1ServiceAcknowledgements ==
    [host_name : {"web1", "gone1"}, service_description : {"HTTP", "PING"},
     author : {"admin"}, comment_data : {"broken"}]

\* the Comment objects the Target may hold before the migration
Icinga2Comments ==
    {NewComment("web1", service_name, "admin", "broken" \o sfx) :
         service_name \in {None, "http"}, sfx \in Suffixes}

\* migrate_host_acknowledgements is called (lines 100-111)
HostAcknowledgementsStart ==
    /\ icinga1 = EmptyIcinga1
    /\ icinga2_snapshot = [icinga2_hosts |-> {"web1"}, icinga2_services |-> <<>>]
    /\ \E l \in ListsOf(Icinga2Comments, 1) :
          icinga2 = [downtimes |-> <<>>, comments |-> l, objects |-> <<>>]
    /\ \E l \in ListsOf(Icinga1HostAcknowledgements, MaxEntities),
          hostname \in HostnameArguments :
          entities = FilterHostname(l, hostname)
    /\ MigrateEntry("migrate_host_acknowledgements")

\* migrate_service_acknowledgements is called (lines 25-39)
ServiceAcknowledgementsStart ==
    /\ \E l \in Icinga1ServiceLists("1") :
          icinga1 = [EmptyIcinga1 EXCEPT !.services = [h \in {"web1"} |-> l]]
    /\ \E l \in Icinga2ServiceLists(TRUE) :
          icinga2_snapshot = [icinga2_hosts |-> {"web1"},
                              icinga2_services |-> [h \in {"web1"} |-> l]]
    /\ \E l \in ListsOf(Icinga2Comments, 1) :
          icinga2 = [downtimes |-> <<>>, comments |-> l, objects |-> <<>>]
    /\ \E l \in ListsOf(Icinga1ServiceAcknowledgements, MaxEntities),
          hostname \in HostnameArguments :
          entities = FilterHostname(l, hostname)
    /\ MigrateEntry("migrate_service_acknowledgements")

\* the order of the keys of the Icinga1 host dictionary
HostOrder == <<"gone1", "web1">>

\* lines 34-37 and 100-103: hostnames
HostnamesOf(hosts, hostname) ==
    IF hostname # None THEN <<hostname>>
    ELSE SelectSeq(HostOrder, LAMBDA h : h \in DOMAIN hosts)

\* icinga1.get_hosts_dict()
Icinga1HostDicts ==
    UNION {[D -> [notifications_enabled : {"1", "0"}]] :
               D \in {{"web1"}, {"web1", "gone1"}}}

\* icinga1.get_hoststatus_by_host() for the hosts of a host dictionary
Icinga1HostStatusDicts(hosts) ==
    UNION {[D -> [notifications_enabled : {"1", "0"}]] : D \in SUBSET DOMAIN hosts}

\* the Target objects of the hosts and services of a snapshot
Icinga2Objects(hosts, services) ==
    LET names == hosts \cup {"web1!" \o services[i].attrs.name : i \in DOMAIN services}
    IN  [n \in names |->
            [enable_notifications |->
                 IF n \in hosts THEN TRUE
                 ELSE \E i \in DOMAIN services :
                          /\ n = "web1!" \o services[i].attrs.name
                          /\ services[i].attrs.enable_notifications,
             notes |-> ""]]

\* migrate_host_notification_states is called (lines 27-39)
HostNotificationStatesStart ==
    /\ \E hosts \in Icinga1HostDicts : \E status \in Icinga1HostStatusDicts(hosts) :
          /\ icinga1 = [EmptyIcinga1 EXCEPT !.hosts = hosts, !.hoststatus = status]
          /\ \E hostname \in HostnameArguments \cup {"new1"} :
                entities = HostnamesOf(hosts, hostname)
    /\ icinga2_snapshot = [icinga2_hosts |-> {"web1"}, icinga2_services |-> <<>>]
    /\ icinga2 = [downtimes |-> <<>>, comments |-> <<>>,
                  objects |-> Icinga2Objects({"web1"}, <<>>)]
    /\ MigrateEntry("migrate_host_notification_states")

\* icinga1.get_servicestatus_by_host() for web1
Icinga1ServiceStatusLists ==
    {<<>>} \cup {<<[check_command |-> "check_http_foo", notifications_enabled |-> e]>> :
                     e \in {"0", "1"}}

\* migrate_service_notification_states is called (lines 90-105)
ServiceNotificationStatesStart ==
    /\ \E hosts \in Icinga1HostDicts, enabled \in {"1", "0"} :
       \E services \in Icinga1ServiceLists(enabled), status \in Icinga1ServiceStatusLists :
          /\ icinga1 = [EmptyIcinga1 EXCEPT !.hosts = hosts,
                                            !.services = [h \in {"web1"} |-> services],
                                            !.servicestatus = [h \in {"web1"} |-> status]]
          /\ \E hostname \in HostnameArguments :
                entities = HostnamesOf(hosts, hostname)
    /\ \E enabled \in BOOLEAN : \E l \in Icinga2ServiceLists(enabled) :
          /\ icinga2_snapshot = [icinga2_hosts |-> {"web1"},
                                 icinga2_services |-> [h \in {"web1"} |-> l]]
          /\ icinga2 = [downtimes |-> <<>>, comments |-> <<>>,
                        objects |-> Icinga2Objects({"web1"}, l)]
    /\ MigrateEntry("migrate_service_notification_states")

MigrateStart ==
    \/ HostNotificationStatesStart
    \/ ServiceNotificationStatesStart
    \/ HostDowntimesStart
    \/ ServiceDowntimesStart
    \/ HostAcknowledgementsStart
    \/ ServiceAcknowledgementsStart

\* no migrator is running
MigrateIdle ==
    /\ migrator = None
    /\ simulate = TRUE
    /\ suffix = ""
    /\ icinga1 = EmptyIcinga1
    /\ icinga2_snapshot = [icinga2_hosts |-> {}, icinga2_services |-> <<>>]
    /\ icinga2 = [downtimes |-> <<>>, comments |-> <<>>, objects |-> <<>>]
    /\ entities = <<>>
    /\ position = 1
    /\ run = 1
    /\ migrate_count = 0
    /\ error = None
    /\ log = <<>>
    /\ icinga2_before = icinga2

----------------------------------------------------------------------------
(* compare_contacts (compare/compare.py 395-438) *)
(* A pager is the sequence of its characters; a contact without the key    *)
(* pager has the pager AbsentPager, and NonePager is the pager None.       *)

AbsentPager == <<Absent>>
NonePager == <<None>>

\* re.sub(r'^00', '', pager): the pattern is anchored at the start of the
\* string, so at most one occurrence, the leading "00", is removed
StripLeading00All(pager) == SelectSeq(pager, LAMBDA ch : ch # "0")

StripLeading00(pager) ==
    IF Len(pager) >= 2 /\ pager[1] = "0" /\ pager[2] = "0" THEN SubSeq(pager, 3, Len(pager))
    ELSE pager

\* the Icinga2 users line 411 selects for a contact
Icinga2ContactsNamed(users, contact_name) == SelectSeq(users, LAMBDA user : user.attrs.name = contact_name)

\* one iteration of the for loop (410-437).  A pager that the object cache
\* holds without a value is None (icinga1.py, parse_icinga_cache), and re.sub
\* raises TypeError for it.
CompareContact ==
    /\ pc = "loop"
    /\ contact_position <= Len(icinga1_contacts)
    /\ LET icinga1_contact == icinga1_contacts[contact_position]
           icinga2_contact == Icinga2ContactsNamed(icinga2_contacts, icinga1_contact.contact_name)
       IN  IF icinga2_contact # <<>> /\ icinga1_contact.pager # AbsentPager
           THEN IF icinga1_contact.pager = NonePager
                THEN /\ pc' = "raised"
                     /\ UNCHANGED <<contacts_diff, contact_position>>
                ELSE LET icinga1_pager == StripLeading00(icinga1_contact.pager)
                         icinga2_pager == icinga2_contact[1].attrs.pager
                         icinga1_mail == IF icinga1_contact.email = Absent THEN None
                                         ELSE icinga1_contact.email
                         icinga2_mail == icinga2_contact[1].attrs.email
                         wrong_pager ==
                             IF icinga1_pager # icinga2_pager
                             THEN Append(contacts_diff.wrong_pager,
                                         <<icinga1_contact.contact_name, icinga1_pager, icinga2_pager>>)
                             ELSE contacts_diff.wrong_pager
                         wrong_email ==
                             IF Truthy(icinga1_mail) /\ icinga1_mail # icinga2_mail
                             THEN Append(contacts_diff.wrong_email,
                                         <<icinga1_contact.contact_name, icinga1_mail, icinga2_mail>>)
                             ELSE contacts_diff.wrong_email
                     IN  /\ contacts_diff' = [wrong_pager |-> wrong_pager, wrong_email |-> wrong_email]
                         /\ contact_position' = contact_position + 1
                         /\ UNCHANGED pc
           ELSE /\ contact_position' = contact_position + 1
                /\ UNCHANGED <<contacts_diff, pc>>
    /\ UNCHANGED <<icinga1_contacts, icinga2_contacts, extractVars, serviceContactVars,
                   retryVars, cacheVars, hostVars, svcVars, migVars,
                   parseVars, configVars>>

\* return diff
CompareContactsReturn ==
    /\ pc = "loop"
    /\ contact_position > Len(icinga1_contacts)
    /\ pc' = "done"
    /\ UNCHANGED <<hostVars, svcVars, migVars, otherVars>>

MaxPagerLen == 3

PagerDigits == {"0", "4"}

\* the pagers of the examples: 0049123456, 49123456 and 123456
ExamplePagers ==
    { <<"0", "0", "4", "9", "1", "2", "3", "4", "5", "6">>,
      <<"4", "9", "1", "2", "3", "4", "5", "6">>,
      <<"1", "2", "3", "4", "5", "6">> }

Pagers == UNION { [1..n -> PagerDigits] : n \in 0..MaxPagerLen } \cup ExamplePagers

\* the Icinga1 contact objects of the model
Icinga1Contacts ==
    [contact_name : {"alice"}, pager : Pagers \cup {AbsentPager, NonePager}, email : {Absent, "alice@example.org"}]
    \cup [contact_name : {"bob"}, pager : {AbsentPager, <<"0", "0", "4">>}, email : {Absent}]

\* the Icinga2 user objects of the model; the API returns pager and email
\* as strings, empty when unset
Icinga2Users ==
    { [attrs |-> a] : a \in [name : {"alice"}, pager : Pagers, email : {"", "alice@example.org"}]
                            \cup [name : {"bob"}, pager : {<<>>, <<"4">>}, email : {""}] }

\* the lists of at most two objects of S with distinct names
ContactLists(S, name) ==
    { <<>> } \cup { <<x>> : x \in S }
    \cup { l \in { <<x, y>> : x \in S, y \in S } : name[l[1]] # name[l[2]] }

ContactsStart ==
    /\ icinga1_contacts \in ContactLists(Icinga1Contacts, [c \in Icinga1Contacts |-> c.contact_name])
    /\ icinga2_contacts \in { l \in ContactLists(Icinga2Users, [u \in Icinga2Users |-> u.attrs.name]) :
                                Len(l) < 2 \/ l[1].attrs.name = "alice" }
    /\ contacts_diff = [wrong_pager |-> <<>>, wrong_email |-> <<>>]
    /\ contact_position = 1

\* compare_contacts is not running
ContactsIdle ==
    /\ icinga1_contacts = <<>>
    /\ icinga2_contacts = <<>>
    /\ contacts_diff = [wrong_pager |-> <<>>, wrong_email |-> <<>>]
    /\ contact_position = 1

----------------------------------------------------------------------------
(* The derivation of check_command_extracted.  compare.py and the migrators *)
(* read the key from every service record and utils.py declares the alias   *)
(* table; the function that derives the key is modelled from the            *)
(* specification: the first pattern of the table that matches the raw       *)
(* check command gives the token, a command no pattern matches is its own   *)
(* token.  A check command is the sequence of its characters, and a pattern *)
(* "prefix.*" matches the commands that start with prefix.                  *)

\* the table with the pattern check_ping.* in the place of check_ping_.*
CheckCommandMapShortPattern ==
    { [prefix |-> <<"c", "h", "e", "c", "k", "_", "p", "i", "n", "g">>, name |-> <<"p", "i", "n", "g">>] }

\* utils.py: CHECK_COMMAND_MAP = {'check_ping_.*': 'ping'}
CHECK_COMMAND_MAP ==
    { [prefix |-> <<"c", "h", "e", "c", "k", "_", "p", "i", "n", "g", "_">>, name |-> <<"p", "i", "n", "g">>] }

StartsWith(string, prefix) == Len(string) >= Len(prefix) /\ SubSeq(string, 1, Len(prefix)) = prefix

MatchingAliases(check_command) == { alias \in CHECK_COMMAND_MAP : StartsWith(check_command, alias.prefix) }

extract_check_command(check_command) ==
    IF MatchingAliases(check_command) = {} THEN check_command
    ELSE (CHOOSE alias \in MatchingAliases(check_command) : TRUE).name

\* the raw check command of a service record: check_command of an Icinga1
\* service, attrs.check_command of an Icinga2 service
RawCheckCommand(service) == IF service.origin = "icinga1" THEN service.check_command ELSE service.attrs.check_command

\* the derivation is applied to the next service record
ExtractService ==
    /\ pc = "loop"
    /\ Len(services_extracted) < Len(services_raw)
    /\ LET service == services_raw[Len(services_extracted) + 1]
       IN  services_extracted' =
              Append(services_extracted,
                     [record |-> service,
                      check_command_extracted |-> extract_check_command(RawCheckCommand(service))])
    /\ UNCHANGED <<services_raw, contactVars, serviceContactVars, retryVars, cacheVars, hostVars, svcVars,
                   migVars, pc,
                   parseVars, configVars>>

\* every service record carries its token
ExtractReturn ==
    /\ pc = "loop"
    /\ Len(services_extracted) = Len(services_raw)
    /\ pc' = "done"
    /\ UNCHANGED <<hostVars, svcVars, migVars, otherVars>>

MaxSuffixLen == 1

\* the raw check commands of the model: a stem, followed by at most
\* MaxSuffixLen characters
RawCheckCommands ==
    { stem \o tail : stem \in { <<>>, <<"p", "i", "n", "g">>, <<"c", "h", "e", "c", "k", "_", "p", "i", "n", "g">>,
                                 <<"c", "h", "e", "c", "k", "_", "p", "i", "n", "g", "_">>,
                                 <<"c", "h", "e", "c", "k", "_", "h", "t", "t", "p">>,
                                 <<"x", "c", "h", "e", "c", "k", "_", "p", "i", "n", "g">> },
                     tail \in UNION { [1..n -> {"_", "4"}] : n \in 0..MaxSuffixLen } }

RawServices ==
    [origin : {"icinga1"}, check_command : RawCheckCommands]
    \cup { [origin |-> "icinga2", attrs |-> a] : a \in [check_command : RawCheckCommands] }

ExtractStart ==
    /\ services_raw \in { <<>> } \cup { <<x>> : x \in RawServices } \cup { <<x, y>> : x \in RawServices, y \in RawServices }
    /\ services_extracted = <<>>

ExtractIdle ==
    /\ services_raw = <<>>
    /\ services_extracted = <<>>

----------------------------------------------------------------------------
(* compare_service_contacts (compare/compare.py 441-510) *)
(* The contacts of a service are the set of the names that the sorted list  *)
(* of line 469 holds: the string 'dummy' is the set {"dummy"}, and a        *)
(* service without the key contacts has the empty set (lines 467-468).      *)

\* lines 473-477: the Icinga2 services of the host with the extracted check
\* command of the Icinga1 service, or with its check command as vars.comment
ContactServicesIcinga2(icinga2_services, icinga1_service) ==
    SelectSeq(ServicesOf(icinga2_services, icinga1_service.host_name),
              LAMBDA service :
                  \/ service.check_command_extracted = icinga1_service.check_command_extracted
                  \/ ndict_vars(service, "comment") = icinga1_service.check_command)

\* lines 481-490: the names of the users of the notification of the service
Icinga2ServiceContacts(notifications, hostname, icinga2_service) ==
    LET key == <<hostname, icinga2_service.attrs.name>>
    IN  IF key \in DOMAIN notifications THEN notifications[key] ELSE {}

\* lines 498-503 without the test of contact_groups
DummySkippedIgnoresGroups(icinga1_service, icinga2_service) == icinga2_service.attrs.enable_notifications # "True"

\* lines 500-503: a service with the contacts 'dummy' is skipped
DummySkipped(icinga1_service, icinga2_service) ==
    /\ icinga1_service.contact_groups = "dummy"
    /\ icinga2_service.attrs.enable_notifications # "True"

\* one iteration of the for loop (463-509); reading contact_groups of a
\* service that has none is a KeyError (line 501)
CompareServiceContacts ==
    /\ pc = "loop"
    /\ sc_position <= Len(sc_icinga1_services)
    /\ LET icinga1_service == sc_icinga1_services[sc_position]
           icinga1_names == icinga1_service.contacts
           icinga2_service == ContactServicesIcinga2(sc_icinga2_services, icinga1_service)
           icinga2_names == Icinga2ServiceContacts(sc_notifications, icinga1_service.host_name,
                                                      icinga2_service[1])
           entry == [position |-> sc_position,
                     icinga2_service |-> IF icinga2_service = <<>> THEN None
                                         ELSE icinga2_service[1].attrs.name,
                     different_users |-> /\ icinga2_service # <<>>
                                         /\ icinga1_names # {"dummy"}
                                         /\ icinga1_names # icinga2_names]
       IN  /\ sc_log' = Append(sc_log, entry)
           /\ IF icinga2_service # <<>> /\ icinga1_service.contacts = {"dummy"}
              THEN IF icinga1_service.contact_groups = Absent
                   THEN /\ pc' = "raised"
                        /\ UNCHANGED <<sc_diff, sc_position>>
                   ELSE /\ sc_diff' = IF DummySkipped(icinga1_service, icinga2_service[1]) THEN sc_diff
                                      ELSE Append(sc_diff, <<icinga1_service.host_name,
                                                             icinga1_service.check_command_extracted>>)
                        /\ sc_position' = sc_position + 1
                        /\ UNCHANGED pc
              ELSE /\ sc_position' = sc_position + 1
                   /\ UNCHANGED <<sc_diff, pc>>
    /\ UNCHANGED <<sc_icinga1_services, sc_icinga2_services, sc_notifications,
                   contactVars, extractVars, retryVars, cacheVars, hostVars, svcVars, migVars,
                   parseVars, configVars>>

\* return diff
CompareServiceContactsReturn ==
    /\ pc = "loop"
    /\ sc_position > Len(sc_icinga1_services)
    /\ pc' = "done"
    /\ UNCHANGED <<hostVars, svcVars, migVars, otherVars>>

\* the Icinga1 services of web1, the Icinga2 services of web1 (the health
\* check has the extracted check command of the Icinga1 service check_nrpe)
\* and the users of the notification of the Icinga2 service http
ServiceContactsStart ==
    /\ \E objects \in SUBSET ([host_name : {"web1"},
                               identity : {<<"check_http_foo", "http">>, <<"check_nrpe", "nrpe">>},
                               contacts : {{}, {"dummy"}, {"alice"}, {"alice", "bob"}},
                               contact_groups : {Absent, "dummy", "admins"}]) :
          /\ Cardinality(objects) <= 2
          /\ \A x, y \in objects : x.identity = y.identity => x = y
          /\ \E order \in [1..Cardinality(objects) -> objects] :
                /\ \A i, j \in DOMAIN order : i # j => order[i] # order[j]
                /\ sc_icinga1_services =
                      [i \in DOMAIN order |->
                          [host_name |-> order[i].host_name, check_command |-> order[i].identity[1],
                           check_command_extracted |-> order[i].identity[2],
                           contacts |-> order[i].contacts, contact_groups |-> order[i].contact_groups]]
    /\ \E enabled \in {"True", "False"} :
          LET service(name, command) ==
                  [check_command_extracted |-> command,
                   attrs |-> [name |-> name, enable_notifications |-> enabled,
                              vars |-> [kind |-> None, nosla |-> Absent, comment |-> Absent]]]
          IN  sc_icinga2_services \in
                 { [h \in {"web1"} |-> l] :
                      l \in { <<>>, <<service("http", "http")>>, <<service("nrpe-health", "nrpe")>>,
                              <<service("nrpe-health", "nrpe"), service("http", "http")>> } }
    /\ sc_notifications \in
          { <<>> } \cup { [key \in {<<"web1", "http">>} |-> users] : users \in {{"alice"}, {"alice", "bob"}} }
    /\ sc_diff = <<>>
    /\ sc_position = 1
    /\ sc_log = <<>>

\* compare_service_contacts is not running
ServiceContactsIdle ==
    /\ sc_icinga1_services = <<>>
    /\ sc_icinga2_services = <<>>
    /\ sc_notifications = <<>>
    /\ sc_diff = <<>>
    /\ sc_position = 1
    /\ sc_log = <<>>

----------------------------------------------------------------------------
(* Icinga2Config.get_objects_list (icinga2/icinga2.py 59-65) *)

\* range(0, self.retries) in the place of range(0, self.retries + 1)
AttemptBudgetWithoutFirst(r) == r

\* the number of iterations of for i in range(0, self.retries + 1)
AttemptBudget(r) == r + 1

\* one iteration of the loop: self.client.objects.list returns a list, raises
\* ChunkedEncodingError (caught and logged), or raises another exception,
\* which the try statement does not catch
ObjectsListAttempt ==
    /\ pc = "loop"
    /\ Len(attempts) < AttemptBudget(retries)
    /\ \E outcome \in { [raises |-> None, returns |-> objects] : objects \in { <<>>, <<"web1">>, <<"web1", "db1">> } }
                      \cup { [raises |-> exception, returns |-> None] :
                                exception \in {"ChunkedEncodingError", "Icinga2ApiException"} } :
          /\ attempts' = Append(attempts, outcome)
          /\ IF outcome.raises = None
             THEN /\ objects_list' = [raises |-> None, returns |-> outcome.returns]
                  /\ pc' = "done"
             ELSE IF outcome.raises = "ChunkedEncodingError"
             THEN UNCHANGED <<objects_list, pc>>
             ELSE /\ objects_list' = [raises |-> outcome.raises, returns |-> None]
                  /\ pc' = "raised"
    /\ UNCHANGED <<retries, contactVars, extractVars, serviceContactVars, cacheVars, hostVars, svcVars, migVars,
                   parseVars, configVars>>

\* the loop ends without a return: raise Icinga2Error (line 65)
ObjectsListExhausted ==
    /\ pc = "loop"
    /\ Len(attempts) >= AttemptBudget(retries)
    /\ objects_list' = [raises |-> "Icinga2Error", returns |-> None]
    /\ pc' = "raised"
    /\ UNCHANGED <<retries, attempts, contactVars, extractVars, serviceContactVars, cacheVars, hostVars,
                   svcVars, migVars,
                   parseVars, configVars>>

\* the largest retries of the model; the default of line 45 is 5
MaxRetries == 5

RetryStart ==
    /\ retries \in 0..MaxRetries
    /\ attempts = <<>>
    /\ objects_list = [raises |-> None, returns |-> None]

\* get_objects_list is not running
RetryIdle ==
    /\ retries = 0
    /\ attempts = <<>>
    /\ objects_list = [raises |-> None, returns |-> None]

----------------------------------------------------------------------------
(* Icinga1Config.objects and status (icinga1/icinga1.py 128-166), and the   *)
(* order in which the comparison and migration functions read the Source    *)
(* and the Target: "objects" and "status" are reads of the two properties   *)
(* (through _get_objects and _get_status), "icinga2" is a query of the      *)
(* Target, and "loop" is the for loop in which the function reports its     *)
(* discrepancies or invokes the mutating operations of the Target.          *)

\* compare.py: the reads of each function and its loop, in the order of the
\* code
CompareAccesses ==
    [compare_hosts |-> <<"objects", "icinga2", "loop">>,
     compare_services |-> <<"objects", "status", "icinga2", "icinga2", "loop">>,
     compare_services_manual |-> <<"objects", "icinga2", "icinga2", "loop">>,
     compare_downtimes |-> <<"status", "status", "icinga2", "loop">>,
     compare_contacts |-> <<"objects", "icinga2", "loop">>,
     compare_service_contacts |-> <<"objects", "icinga2", "icinga2", "loop">>,
     compare_acknowledged_problems |-> <<"status", "icinga2", "loop">>]

\* migrate/downtimes.py
MigrateDowntimeAccesses ==
    [migrate_host_downtimes |-> <<"icinga2", "status", "loop">>,
     migrate_service_downtimes |-> <<"icinga2", "objects", "icinga2", "status", "loop">>]

\* migrate/acknowledgements.py
MigrateAcknowledgementAccesses ==
    [migrate_service_acknowledgements |-> <<"objects", "icinga2", "icinga2", "status", "loop">>,
     migrate_host_acknowledgements |-> <<"status", "loop">>]

\* migrate/notification_states.py
MigrateNotificationAccesses ==
    [migrate_host_notification_states |-> <<"icinga2", "objects", "status", "loop">>,
     migrate_service_notification_states |-> <<"objects", "icinga2", "icinga2", "status", "objects", "loop">>]

Migrators == DOMAIN MigrateDowntimeAccesses \cup DOMAIN MigrateAcknowledgementAccesses \cup DOMAIN MigrateNotificationAccesses

Accesses(function) ==
    IF function \in DOMAIN CompareAccesses THEN CompareAccesses[function]
    ELSE IF function \in DOMAIN MigrateDowntimeAccesses THEN MigrateDowntimeAccesses[function]
    ELSE IF function \in DOMAIN MigrateAcknowledgementAccesses THEN MigrateAcknowledgementAccesses[function]
    ELSE MigrateNotificationAccesses[function]

MaxWork == 2

\* a property that never raises
Icinga1PropertyNeverRaises(cache, property) == FALSE

\* if not self._objects: raise Exception (lines 142-144, 162-164)
Icinga1PropertyRaises(cache, property) == cache[property] = <<>>

\* the steps of the function that are done: its events without the reports
\* and mutating operations of its loop
StepsDone == Len(SelectSeq(events, LAMBDA event : event \notin {"report", "mutate"}))

\* the next step of the function is a read
EntryAccess ==
    /\ pc = "loop"
    /\ StepsDone < Len(Accesses(caller))
    /\ LET access == Accesses(caller)[StepsDone + 1]
       IN  /\ access # "loop"
           /\ IF access # "icinga2" /\ Icinga1PropertyRaises(icinga1_cache, access)
              THEN /\ pc' = "raised"
                   /\ events' = Append(events, "Exception")
              ELSE /\ events' = Append(events, access)
                   /\ UNCHANGED pc
    /\ UNCHANGED <<caller, icinga1_cache, contactVars, extractVars, serviceContactVars, retryVars,
                   hostVars, svcVars, migVars,
                   parseVars, configVars>>

\* an iteration of the loop of the function: it reports a discrepancy or, in
\* a migrator, invokes a mutating operation of the Target
LoopWork ==
    /\ pc = "loop"
    /\ StepsDone < Len(Accesses(caller))
    /\ Accesses(caller)[StepsDone + 1] = "loop"
    /\ Len(events) < StepsDone + MaxWork
    /\ \E work \in {"report"} \cup (IF caller \in Migrators THEN {"mutate"} ELSE {}) :
          events' = Append(events, work)
    /\ UNCHANGED <<caller, icinga1_cache, contactVars, extractVars, serviceContactVars, retryVars,
                   hostVars, svcVars, migVars, pc,
                   parseVars, configVars>>

\* the loop ends, and the function returns after its last step
LoopReturn ==
    /\ pc = "loop"
    /\ StepsDone < Len(Accesses(caller))
    /\ Accesses(caller)[StepsDone + 1] = "loop"
    /\ events' = Append(events, "loop")
    /\ pc' = IF StepsDone + 1 = Len(Accesses(caller)) THEN "done" ELSE pc
    /\ UNCHANGED <<caller, icinga1_cache, contactVars, extractVars, serviceContactVars, retryVars,
                   hostVars, svcVars, migVars,
                   parseVars, configVars>>

\* a function is called; each of the two sets of cache files holds no
\* record or one
CacheStart ==
    /\ caller \in DOMAIN CompareAccesses \cup Migrators
    /\ icinga1_cache \in [objects : { <<>>, <<[object_type |-> "host"]>> },
                          status : { <<>>, <<[object_type |-> "hoststatus"]>> }]
    /\ events = <<>>

CacheIdle ==
    /\ caller = None
    /\ icinga1_cache = [objects |-> <<>>, status |-> <<>>]
    /\ events = <<>>

----------------------------------------------------------------------------
(* parse_icinga_cache (icinga1/icinga1.py 13-16, 59-103) *)
(* The content of a cache file is a string; the two regular expressions are *)
(* matched character by character as re.finditer matches them.             *)

\* \w and \s of the regular expressions
WordChars ==
    {"a", "b", "c", "d", "e", "f", "g", "h", "i", "j", "k", "l", "m", "n", "o", "p", "q",
     "r", "s", "t", "u", "v", "w", "x", "y", "z", "_", "0", "1", "2", "3", "4", "5", "6",
     "7", "8", "9"}

SpaceChars == {" ", "\t", "\n", "\r", "\f"}

\* the character of the content at position p
CharAt(string, p) == SubSeq(string, p, p)

\* the literal text lit stands at position p
Literal(string, p, lit) ==
    /\ p + Len(lit) - 1 <= Len(string)
    /\ SubSeq(string, p, p + Len(lit) - 1) = lit

\* the position after the longest run of characters of the class that starts
\* at position p (a greedy \w+ or \s+; the run is empty when the result is p)
RECURSIVE RunEnd(_, _, _)
RunEnd(string, p, class) ==
    IF p <= Len(string) /\ CharAt(string, p) \in class
    THEN RunEnd(string, p + 1, class) ELSE p

\* the position of the first newline at or after p, Len + 1 without one (the
\* end of a greedy [^\n]*)
RECURSIVE LineEnd(_, _)
LineEnd(string, p) ==
    IF p <= Len(string) /\ CharAt(string, p) # "\n" THEN LineEnd(string, p + 1) ELSE p

\* match.groups() of a match that ends before position end
Groups(object_type, keyonly, key, value, end) ==
    [object_type |-> object_type, keyonly |-> keyonly, key |-> key, value |-> value,
     end |-> end]

NoMatch == Groups(None, None, None, None, 0)

\* define\s+(?P<object_type>\w+)\s+\{\n
MatchDefine(string, p) ==
    LET s1 == RunEnd(string, p + 6, SpaceChars)
        w == RunEnd(string, s1, WordChars)
        s2 == RunEnd(string, w, SpaceChars)
    IN  IF Literal(string, p, "define") /\ s1 > p + 6 /\ w > s1 /\ s2 > w
           /\ Literal(string, s2, "{\n")
        THEN Groups(SubSeq(string, s1, w - 1), None, None, None, s2 + 2)
        ELSE NoMatch

\* the regular expression without the keyonly alternative
MatchKeyonlyNever(string, p) == NoMatch

\* \t(?P<keyonly>\w+)\t\n
MatchKeyonly(string, p) ==
    LET w == RunEnd(string, p + 1, WordChars)
    IN  IF Literal(string, p, "\t") /\ w > p + 1 /\ Literal(string, w, "\t\n")
        THEN Groups(None, SubSeq(string, p + 1, w - 1), None, None, w + 2)
        ELSE NoMatch

\* the last newline of string[from..to], 0 without one
RECURSIVE LastNewline(_, _, _)
LastNewline(string, from, to) ==
    IF to < from THEN 0
    ELSE IF CharAt(string, to) = "\n" THEN to
    ELSE LastNewline(string, from, to - 1)

\* \t(?P<key>\w+)\s+(?P<value>[^\n]*)\n : the greedy \s+ takes the whole run
\* of whitespace, newlines included; without a newline after the value it
\* gives characters back until a newline of the run ends the match
MatchKeyValue(string, p) ==
    LET w == RunEnd(string, p + 1, WordChars)
        s == RunEnd(string, w, SpaceChars)
        e == LineEnd(string, s)
        n == LastNewline(string, w + 1, s - 1)
    IN  IF ~(Literal(string, p, "\t") /\ w > p + 1 /\ s > w) THEN NoMatch
        ELSE IF e <= Len(string)
        THEN Groups(None, None, SubSeq(string, p + 1, w - 1), SubSeq(string, s, e - 1), e + 1)
        ELSE IF n > 0
        THEN Groups(None, None, SubSeq(string, p + 1, w - 1), "", n + 1)
        ELSE NoMatch

\* \t\} of both regular expressions
MatchEnd(string, p) ==
    IF Literal(string, p, "\t}") THEN Groups(None, None, None, None, p + 2) ELSE NoMatch

\* (?P<object_type>\w+)\s+\{\n
MatchStatusType(string, p) ==
    LET w == RunEnd(string, p, WordChars)
        s == RunEnd(string, w, SpaceChars)
    IN  IF w > p /\ s > w /\ Literal(string, s, "{\n")
        THEN Groups(SubSeq(string, p, w - 1), None, None, None, s + 2)
        ELSE NoMatch

\* \t(?P<key>\w+)\=(?P<value>[^\n]*)\n
MatchStatusValue(string, p) ==
    LET w == RunEnd(string, p + 1, WordChars)
        e == LineEnd(string, w + 1)
    IN  IF Literal(string, p, "\t") /\ w > p + 1 /\ Literal(string, w, "=")
           /\ e <= Len(string)
        THEN Groups(None, None, SubSeq(string, p + 1, w - 1), SubSeq(string, w + 1, e - 1), e + 1)
        ELSE NoMatch

\* the first alternative that matches counts
FirstMatch(alternatives) ==
    IF \A i \in DOMAIN alternatives : alternatives[i] = NoMatch THEN NoMatch
    ELSE alternatives[CHOOSE i \in DOMAIN alternatives :
                          /\ alternatives[i] # NoMatch
                          /\ \A j \in 1..(i - 1) : alternatives[j] = NoMatch]

\* lines 13-15: a match of OBJECT_CACHE_REGEX at position p
OBJECT_CACHE_REGEX(string, p) ==
    FirstMatch(<<MatchDefine(string, p), MatchKeyonly(string, p),
                 MatchKeyValue(string, p), MatchEnd(string, p)>>)

\* line 16: a match of STATUS_FILE_REGEX at position p
STATUS_FILE_REGEX(string, p) ==
    FirstMatch(<<MatchStatusType(string, p), MatchStatusValue(string, p),
                 MatchEnd(string, p)>>)

MatchAt(rx, string, p) ==
    IF rx = "OBJECT_CACHE_REGEX" THEN OBJECT_CACHE_REGEX(string, p)
    ELSE STATUS_FILE_REGEX(string, p)

\* line 73: the next match of re.finditer at or after position p
RECURSIVE finditer(_, _, _)
finditer(rx, string, p) ==
    IF p > Len(string) THEN NoMatch
    ELSE IF MatchAt(rx, string, p) # NoMatch THEN MatchAt(rx, string, p)
    ELSE finditer(rx, string, p + 1)

\* not x for a group
NotGroup(x) == x \in {None, ""}

\* obj[key] = value
DictSet(d, key, value) ==
    [k \in DOMAIN d \cup {key} |-> IF k = key THEN value ELSE d[k]]

\* one iteration of for match in matches (lines 79-102)
ParseMatch ==
    /\ pc = "loop"
    /\ content # None
    /\ LET match == finditer(regex, content, match_offset)
       IN  /\ match # NoMatch
           /\ match_offset' = match.end
           /\ IF /\ NotGroup(match.object_type) /\ NotGroup(match.keyonly)
                 /\ NotGroup(match.key) /\ NotGroup(match.value)
              THEN /\ parse_result' = Append(parse_result, parse_obj)
                   /\ parse_obj' = <<>>
              ELSE /\ parse_result' = parse_result
                   /\ parse_obj' =
                         IF ~NotGroup(match.object_type)
                         THEN DictSet(DictSet(parse_obj, "object_type", match.object_type),
                                      "monitoring_source", source)
                         ELSE IF ~NotGroup(match.keyonly)
                         THEN DictSet(parse_obj, match.keyonly, None)
                         ELSE IF ~NotGroup(match.key) /\ ~NotGroup(match.value)
                         THEN DictSet(parse_obj, match.key, match.value)
                         ELSE parse_obj
    /\ UNCHANGED <<blocks, content, regex, source, pc, configVars, hostVars, svcVars,
                   migVars, restVars>>

\* the matches are exhausted: return result (line 103)
ParseReturn ==
    /\ pc = "loop"
    /\ content # None
    /\ finditer(regex, content, match_offset) = NoMatch
    /\ pc' = "done"
    /\ UNCHANGED <<hostVars, svcVars, migVars, otherVars>>

\* the most blocks a cache file of the model holds
MaxBlocks == 2

\* the keys of a block in the order the file lists them, and the values a
\* key may have: none (the block lacks the key), empty, or a text
BlockKeys == <<"contacts", "alias">>

BlockValues ==
    [contacts |-> {Absent, "", "admin"}, alias |-> {Absent, "", "a b"}]

BlockTypes(rx) ==
    IF rx = "OBJECT_CACHE_REGEX" THEN {"host", "service"}
    ELSE {"hoststatus", "hostdowntime"}

\* the blocks of a cache file: the type and the value of each key
CacheBlocks(rx) ==
    {[object_type |-> t, values |-> v] :
         t \in BlockTypes(rx),
         v \in {f \in [{"contacts", "alias"} -> {Absent, "", "admin", "a b"}] :
                    \A k \in DOMAIN f : f[k] \in BlockValues[k]}}

\* the lines of a block as Icinga writes them: tab, key, tab and value in the
\* object cache; tab, key, = and value in the status file
RECURSIVE WriteLines(_, _, _)
WriteLines(rx, values, keys) ==
    IF keys = <<>> THEN ""
    ELSE (IF values[Head(keys)] = Absent THEN ""
          ELSE "\t" \o Head(keys)
                    \o (IF rx = "OBJECT_CACHE_REGEX" THEN "\t" ELSE "=")
                    \o values[Head(keys)] \o "\n")
         \o WriteLines(rx, values, Tail(keys))

WriteBlock(rx, block) ==
    (IF rx = "OBJECT_CACHE_REGEX" THEN "define " ELSE "")
        \o block.object_type \o " {\n"
        \o WriteLines(rx, block.values, BlockKeys)
        \o "\t}\n\n"

RECURSIVE WriteFile(_, _)
WriteFile(rx, file_blocks) ==
    IF file_blocks = <<>> THEN ""
    ELSE WriteBlock(rx, Head(file_blocks)) \o WriteFile(rx, Tail(file_blocks))

\* parse_icinga_cache is called on a cache file (lines 72-76)
ParseStart ==
    /\ \E rx \in {"OBJECT_CACHE_REGEX", "STATUS_FILE_REGEX"} :
       \E file_blocks \in ListsOf(CacheBlocks(rx), MaxBlocks) :
          /\ regex = rx
          /\ blocks = file_blocks
          /\ content = WriteFile(rx, file_blocks)
    /\ source = "monitoring01"
    /\ match_offset = 1
    /\ parse_obj = <<>>
    /\ parse_result = <<>>

\* no cache file is being parsed
ParseIdle ==
    /\ regex = None
    /\ blocks = <<>>
    /\ content = None
    /\ source = None
    /\ match_offset = 1
    /\ parse_obj = <<>>
    /\ parse_result = <<>>

----------------------------------------------------------------------------
(* Icinga1Config (icinga1/icinga1.py 106-438) and the index of the Target  *)
(* services (icinga2/icinga2.py 109-118)                                   *)
(* A record is a function from its keys to their values. kwargs is the     *)
(* sequence of its <<key, value>> pairs.                                   *)

\* lines 138-146 and 158-166: the records a property holds once the files
\* are parsed on first access
Loaded(attribute, parsed) == IF attribute = <<>> THEN parsed ELSE attribute

\* lines 172-174 with the filters taken as alternatives, as _get_status of
\* lines 181-183 takes them
RECURSIVE AnyOfKwargs(_, _)
AnyOfKwargs(objects, kwargs) ==
    IF kwargs = <<>> THEN <<>>
    ELSE SelectSeq(objects,
                   LAMBDA o : /\ Head(kwargs)[1] \in DOMAIN o
                              /\ o[Head(kwargs)[1]] = Head(kwargs)[2])
         \o AnyOfKwargs(objects, Tail(kwargs))

\* lines 172-174: the filters applied one after the other
RECURSIVE FilterByKwargs(_, _)
FilterByKwargs(objects, kwargs) ==
    IF kwargs = <<>> THEN objects
    ELSE FilterByKwargs(
             SelectSeq(objects,
                       LAMBDA o : /\ Head(kwargs)[1] \in DOMAIN o
                                  /\ o[Head(kwargs)[1]] = Head(kwargs)[2]),
             Tail(kwargs))

\* obj.get('object_type', None) == object_type
HasType(o, object_type) == "object_type" \in DOMAIN o /\ o.object_type = object_type

\* Icinga1Config._get_objects (lines 168-175)
get_objects(objects, object_type, kwargs) ==
    FilterByKwargs(SelectSeq(objects, LAMBDA o : HasType(o, object_type)), kwargs)

\* Icinga1Config._get_status without filters (lines 178 and 184)
get_status(status, object_type) == SelectSeq(status, LAMBDA o : HasType(o, object_type))

\* Icinga1Config.get_services (lines 333-335)
get_services(objects, hostname, kwargs) ==
    get_objects(objects, "service",
                IF hostname # None THEN DictPut(kwargs, "host_name", hostname) ELSE kwargs)

\* Icinga1Config.get_hosts (line 229)
get_hosts(objects, kwargs) == get_objects(objects, "host", kwargs)

\* the host name of a record: service['host_name'] in Icinga1,
\* service['joins']['host']['name'] in Icinga2
HostNameOf(side, record) ==
    IF side = "icinga2" THEN record.joins.host.name ELSE record.host_name

\* a dictionary that keeps one record per hostname, as get_hosts_dict does
RECURSIVE LastByHostname(_, _, _)
LastByHostname(index, side, records) ==
    IF records = <<>> THEN index
    ELSE LET name == HostNameOf(side, Head(records))
         IN  LastByHostname([h \in DOMAIN index \cup {name} |->
                                IF h = name THEN <<Head(records)>> ELSE index[h]],
                            side, Tail(records))

\* services[service['host_name']].append(service) for every record (icinga1
\* lines 344-347 and 281-282, icinga2 lines 115-117)
RECURSIVE ByHostname(_, _, _)
ByHostname(index, side, records) ==
    IF records = <<>> THEN index
    ELSE LET name == HostNameOf(side, Head(records))
         IN  ByHostname([h \in DOMAIN index \cup {name} |->
                            IF h = name THEN Append(ServicesOf(index, name), Head(records))
                            ELSE index[h]],
                        side, Tail(records))

\* c.pop('monitoring_source') (line 435)
Pop(record, key) == [k \in DOMAIN record \ {key} |-> record[k]]

\* the orders a list built from a set may have
ListsOfSet(S) ==
    {l \in [1..Cardinality(S) -> S] : \A i, j \in DOMAIN l : i # j => l[i] # l[j]}

\* the most calls of accessors in a run of the model
MaxCalls == 2

\* the call is recorded
Called(call, args, returns) ==
    /\ last_call' = [call |-> call, args |-> args, returns |-> returns]
    /\ calls' = calls + 1

\* the property raises: the files hold no record (lines 143-145, 163-165)
Raised(call, args) ==
    /\ pc' = "raised"
    /\ last_call' = [call |-> call, args |-> args, returns |-> "Exception"]
    /\ calls' = calls + 1

\* Icinga1Config.objects (lines 128-146)
AccessObjects ==
    /\ pc = "loop"
    /\ calls < MaxCalls
    /\ LET objects == Loaded(_objects, cache_files.objects)
       IN  IF objects = <<>>
           THEN /\ Raised("objects", <<>>)
                /\ UNCHANGED <<_objects, objects_first>>
           ELSE /\ _objects' = objects
                /\ objects_first' = IF objects_first = <<>> THEN objects ELSE objects_first
                /\ Called("objects", <<>>, objects)
                /\ pc' = pc
    /\ UNCHANGED <<cache_files, services_api, _status, _contacts, _status_properties,
                   parseVars, hostVars, svcVars, migVars, restVars>>

\* Icinga1Config.contacts (lines 428-438)
AccessContacts ==
    /\ pc = "loop"
    /\ calls < MaxCalls
    /\ IF _contacts # <<>>
       THEN /\ Called("contacts", <<>>, _contacts)
            /\ UNCHANGED <<_objects, _contacts, pc>>
       ELSE LET objects == Loaded(_objects, cache_files.objects)
                contacts == get_objects(objects, "contact", <<>>)
            IN  IF objects = <<>>
                THEN /\ Raised("contacts", <<>>)
                     /\ UNCHANGED <<_objects, _contacts>>
                ELSE IF \E i \in DOMAIN contacts :
                            "monitoring_source" \notin DOMAIN contacts[i]
                THEN \* pop of a key the record does not have
                     /\ Raised("contacts", <<>>)
                     /\ _objects' = objects
                     /\ UNCHANGED _contacts
                ELSE \* the records of the list are the records of self._objects
                     /\ _objects' =
                            [i \in DOMAIN objects |->
                                IF HasType(objects[i], "contact")
                                THEN Pop(objects[i], "monitoring_source") ELSE objects[i]]
                     /\ \E l \in ListsOfSet({Pop(contacts[i], "monitoring_source") :
                                                 i \in DOMAIN contacts}) :
                           /\ _contacts' = l
                           /\ Called("contacts", <<>>, l)
                     /\ pc' = pc
    /\ UNCHANGED <<cache_files, services_api, _status, _status_properties, objects_first,
                   parseVars, hostVars, svcVars, migVars, restVars>>

\* the hostname and the filters of the calls of get_services, and the
\* filters of the calls of get_hosts
ServiceHostnames == {None, "host2"}

ServiceKwargs ==
    {<<>>, <<<<"check_command", "test_check2">>>>,
     <<<<"host_name", "host1">>, <<"check_command", "test_check">>>>,
     <<<<"check_command", "test_check">>, <<"notifications_enabled", "1">>>>}

HostKwargs == {<<>>, <<<<"alias", "web">>>>, <<<<"alias", "web">>, <<"host_name", "host2">>>>}

\* icinga1.get_services(hostname, **kwargs) or icinga1.get_hosts(**kwargs)
GetObjects ==
    /\ pc = "loop"
    /\ calls < MaxCalls
    /\ LET objects == Loaded(_objects, cache_files.objects)
       IN  \/ \E hostname \in ServiceHostnames, kwargs \in ServiceKwargs :
                 IF objects = <<>>
                 THEN Raised("get_services", <<hostname, kwargs>>) /\ UNCHANGED _objects
                 ELSE /\ _objects' = objects
                      /\ Called("get_services", <<hostname, kwargs>>,
                                get_services(objects, hostname, kwargs))
                      /\ pc' = pc
           \/ \E kwargs \in HostKwargs :
                 IF objects = <<>>
                 THEN Raised("get_hosts", <<None, kwargs>>) /\ UNCHANGED _objects
                 ELSE /\ _objects' = objects
                      /\ Called("get_hosts", <<None, kwargs>>, get_hosts(objects, kwargs))
                      /\ pc' = pc
    /\ UNCHANGED <<cache_files, services_api, _status, _contacts, _status_properties,
                   objects_first, parseVars, hostVars, svcVars, migVars, restVars>>

\* the status types of the four properties (lines 370, 382, 408, 424)
StatusProperties ==
    [hostdowntimes |-> "hostdowntime", servicedowntimes |-> "servicedowntime",
     service_acknowledgements |-> "servicecomment", host_acknowledgements |-> "hostcomment"]

\* lines 408-409 and 424-425: the comments of entry type 4
Acknowledgements(comments) == SelectSeq(comments, LAMBDA c : c.entry_type = "4")

\* Icinga1Config.hostdowntimes, servicedowntimes, service_acknowledgements or
\* host_acknowledgements (lines 362-425)
AccessStatusProperty ==
    /\ pc = "loop"
    /\ calls < MaxCalls
    /\ \E property \in DOMAIN StatusProperties :
          IF _status_properties[property] # <<>>
          THEN /\ Called(property, <<>>, _status_properties[property])
               /\ UNCHANGED <<_status, _status_properties, pc>>
          ELSE LET status == Loaded(_status, cache_files.status)
                   found == get_status(status, StatusProperties[property])
                   value == IF property \in {"hostdowntimes", "servicedowntimes"}
                            THEN found ELSE Acknowledgements(found)
               IN  IF status = <<>>
                   THEN Raised(property, <<>>) /\ UNCHANGED <<_status, _status_properties>>
                   ELSE /\ _status' = status
                        /\ _status_properties' = [_status_properties EXCEPT ![property] = value]
                        /\ Called(property, <<>>, value)
                        /\ pc' = pc
    /\ UNCHANGED <<cache_files, services_api, _objects, _contacts, objects_first,
                   parseVars, hostVars, svcVars, migVars, restVars>>

\* the hostnames the functions look up
LookupHostnames == {"host1", "host2", "gone1"}

\* an index by hostname is built and a hostname is looked up in it:
\* icinga1.get_services_by_hostname()[hostname],
\* icinga1.get_servicestatus_by_host()[hostname] or
\* icinga2.get_services_by_hostname()[hostname]
IndexLookup ==
    /\ pc = "loop"
    /\ calls < MaxCalls
    /\ \E hostname \in LookupHostnames :
          \/ LET objects == Loaded(_objects, cache_files.objects)
             IN  IF objects = <<>>
                 THEN /\ Raised("icinga1.get_services_by_hostname", hostname)
                      /\ UNCHANGED <<_objects, _status>>
                 ELSE /\ _objects' = objects
                      /\ Called("icinga1.get_services_by_hostname", hostname,
                                ServicesOf(ByHostname(<<>>, "icinga1",
                                                      get_services(objects, None, <<>>)),
                                           hostname))
                      /\ UNCHANGED <<_status, pc>>
          \/ LET status == Loaded(_status, cache_files.status)
             IN  IF status = <<>>
                 THEN /\ Raised("icinga1.get_servicestatus_by_host", hostname)
                      /\ UNCHANGED <<_objects, _status>>
                 ELSE /\ _status' = status
                      /\ Called("icinga1.get_servicestatus_by_host", hostname,
                                ServicesOf(ByHostname(<<>>, "icinga1",
                                                      get_status(status, "servicestatus")),
                                           hostname))
                      /\ UNCHANGED <<_objects, pc>>
          \/ /\ Called("icinga2.get_services_by_hostname", hostname,
                       ServicesOf(ByHostname(<<>>, "icinga2", services_api), hostname))
             /\ UNCHANGED <<_objects, _status, pc>>
    /\ UNCHANGED <<cache_files, services_api, _contacts, _status_properties, objects_first,
                   parseVars, hostVars, svcVars, migVars, restVars>>

\* the most records a cache file of the model holds
MaxObjects == 2

\* the records of the object cache files
ObjectRecords ==
    {[object_type |-> "service", host_name |-> h, check_command |-> c,
      notifications_enabled |-> "1", monitoring_source |-> "monitoring01"] :
         h \in {"host1", "host2"}, c \in {"test_check", "test_check2"}}
    \cup {[object_type |-> "host", host_name |-> "host1", alias |-> "web",
           monitoring_source |-> "monitoring01"],
          [object_type |-> "host", host_name |-> "host2",
           monitoring_source |-> "monitoring01"]}
    \cup {[object_type |-> "contact", contact_name |-> "alice", monitoring_source |-> m] :
              m \in {"monitoring01", "monitoring02"}}

\* the records of the status cache files
StatusRecords ==
    {[object_type |-> "servicestatus", host_name |-> h, check_command |-> "test_check",
      monitoring_source |-> "monitoring01"] : h \in {"host1", "host2"}}
    \cup {[object_type |-> t, host_name |-> "host1", entry_type |-> e,
           monitoring_source |-> "monitoring01"] :
              t \in {"hostcomment", "servicecomment"}, e \in {"4", "1"}}
    \cup {[object_type |-> t, host_name |-> "host1", monitoring_source |-> "monitoring01"] :
              t \in {"hostdowntime", "servicedowntime"}}

\* the services of the Target
ApiServices ==
    {[joins |-> [host |-> [name |-> h]], attrs |-> [name |-> n]] :
         h \in {"host1", "host2"}, n \in {"http", "ping"}}

\* an Icinga1Config and an Icinga2Config are constructed (icinga1 lines
\* 116-126): the lists of one of the three stores vary
ConfigStart ==
    /\ \/ /\ \E l \in ListsOf(ObjectRecords, MaxObjects) :
                cache_files = [objects |-> l, status |-> <<>>]
          /\ services_api = <<>>
       \/ /\ \E l \in ListsOf(StatusRecords, MaxObjects) :
                cache_files = [objects |-> <<>>, status |-> l]
          /\ services_api = <<>>
       \/ /\ cache_files = [objects |-> <<>>, status |-> <<>>]
          /\ services_api \in ListsOf(ApiServices, MaxObjects)
    /\ _objects = <<>>
    /\ _status = <<>>
    /\ _contacts = <<>>
    /\ _status_properties = [p \in DOMAIN StatusProperties |-> <<>>]
    /\ objects_first = <<>>
    /\ last_call = None
    /\ calls = 0

\* no Icinga1Config is in use
ConfigIdle ==
    /\ cache_files = [objects |-> <<>>, status |-> <<>>]
    /\ services_api = <<>>
    /\ _objects = <<>>
    /\ _status = <<>>
    /\ _contacts = <<>>
    /\ _status_properties = <<>>
    /\ objects_first = <<>>
    /\ last_call = None
    /\ calls = 0

\* none of the functions modelled after the migrators is running
RestIdle == ContactsIdle /\ ExtractIdle /\ ServiceContactsIdle /\ RetryIdle /\ CacheIdle

OtherIdle == RestIdle /\ ParseIdle /\ ConfigIdle

----------------------------------------------------------------------------
(* Specifications *)

InitHosts == HostsStart /\ ServicesIdle /\ MigrateIdle /\ OtherIdle /\ pc = "loop"

NextHosts == CompareHost \/ CompareHostsReturn

SpecHosts == InitHosts /\ [][NextHosts]_vars

InitServices == ServicesStart /\ HostsIdle /\ MigrateIdle /\ OtherIdle /\ pc = "loop"

NextServices == CompareServicesHost \/ CompareServicesReturn

SpecServices == InitServices /\ [][NextServices]_vars

InitServicePair == ServicePairStart /\ HostsIdle /\ MigrateIdle /\ OtherIdle /\ pc = "loop"

SpecServicePair == InitServicePair /\ [][NextServices]_vars

InitMigrate == MigrateStart /\ HostsIdle /\ ServicesIdle /\ OtherIdle /\ pc = "loop"

NextMigrate ==
    \/ MigrateHostDowntime
    \/ MigrateServiceDowntime
    \/ MigrateHostAcknowledgement
    \/ MigrateServiceAcknowledgement
    \/ MigrateHostNotificationState
    \/ MigrateServiceNotificationState
    \/ MigrateReturn
    \/ MigrateAgain

SpecMigrate == InitMigrate /\ [][NextMigrate]_vars

InitContacts == ContactsStart /\ ExtractIdle /\ ServiceContactsIdle /\ RetryIdle /\ CacheIdle /\ HostsIdle /\ ServicesIdle /\ MigrateIdle /\ ParseIdle /\ ConfigIdle /\ pc = "loop"

NextContacts == CompareContact \/ CompareContactsReturn

SpecContacts == InitContacts /\ [][NextContacts]_vars

InitExtract == ExtractStart /\ ContactsIdle /\ ServiceContactsIdle /\ RetryIdle /\ CacheIdle /\ HostsIdle /\ ServicesIdle /\ MigrateIdle /\ ParseIdle /\ ConfigIdle /\ pc = "loop"

NextExtract == ExtractService \/ ExtractReturn

SpecExtract == InitExtract /\ [][NextExtract]_vars

InitServiceContacts == ServiceContactsStart /\ ContactsIdle /\ ExtractIdle /\ RetryIdle /\ CacheIdle /\ HostsIdle /\ ServicesIdle /\ MigrateIdle /\ ParseIdle /\ ConfigIdle /\ pc = "loop"

NextServiceContacts == CompareServiceContacts \/ CompareServiceContactsReturn

SpecServiceContacts == InitServiceContacts /\ [][NextServiceContacts]_vars

InitRetry == RetryStart /\ ContactsIdle /\ ExtractIdle /\ ServiceContactsIdle /\ CacheIdle /\ HostsIdle /\ ServicesIdle /\ MigrateIdle /\ ParseIdle /\ ConfigIdle /\ pc = "loop"

NextRetry == ObjectsListAttempt \/ ObjectsListExhausted

SpecRetry == InitRetry /\ [][NextRetry]_vars

InitCache == CacheStart /\ ContactsIdle /\ ExtractIdle /\ ServiceContactsIdle /\ RetryIdle /\ HostsIdle /\ ServicesIdle /\ MigrateIdle /\ ParseIdle /\ ConfigIdle /\ pc = "loop"

NextCache == EntryAccess \/ LoopWork \/ LoopReturn

SpecCache == InitCache /\ [][NextCache]_vars

InitParse == ParseStart /\ ConfigIdle /\ RestIdle /\ HostsIdle /\ ServicesIdle /\ MigrateIdle /\ pc = "loop"

NextParse == ParseMatch \/ ParseReturn

SpecParse == InitParse /\ [][NextParse]_vars

InitConfig == ConfigStart /\ ParseIdle /\ RestIdle /\ HostsIdle /\ ServicesIdle /\ MigrateIdle /\ pc = "loop"

NextConfig == AccessObjects \/ AccessContacts \/ GetObjects \/ AccessStatusProperty \/ IndexLookup

SpecConfig == InitConfig /\ [][NextConfig]_vars

----------------------------------------------------------------------------
(* Claims about compare_hosts *)

\* the indices of the entries of result[a] that name hostname h
EntriesFor(a, h) == {i \in DOMAIN result[a] : result[a][i][1] = h}

\* C1: for every host on both sides whose attributes compare_hosts has
\* compared and every attribute a of check_interval, max_check_attempts,
\* retry_interval, result[a] holds an entry for the host if and only if
\* float(source[a]) (times 60 for the two intervals) differs from the Target
\* value, and the entry is (hostname, raw Source value, raw Target value);
\* when compare_hosts returns, every host on both sides has been compared.
C1_AttributeDiscrepancy ==
    /\ \A h \in compared : \A a \in CompareAttributeSet :
          LET s == icinga1_hosts[h][a]
              t == icinga2_hosts[h].attrs[a]
              seconds == IF a \in {"check_interval", "retry_interval"}
                         THEN Float(s) * 60 ELSE Float(s)
          IN  /\ (seconds # t) <=> (EntriesFor(a, h) # {})
              /\ Cardinality(EntriesFor(a, h)) <= 1
              /\ \A i \in EntriesFor(a, h) : result[a][i] = <<h, s, t>>
    /\ \A h \in Hostnames \ compared : \A a \in CompareAttributeSet :
          EntriesFor(a, h) = {}
    /\ pc = "done" => compared = DOMAIN icinga1_hosts \cap DOMAIN icinga2_hosts

\* C1 witness: compare_hosts has returned; Source "1" against Target 60 gave
\* no check_interval entry for web1 and Source "1" against Target 120 gave
\* the entry ("db1", "1", 120)
C1_Witness ==
    /\ pc = "done"
    /\ compared = Hostnames
    /\ icinga1_hosts["web1"].check_interval = "1"
    /\ icinga2_hosts["web1"].attrs.check_interval = 60
    /\ EntriesFor("check_interval", "web1") = {}
    /\ result["check_interval"] = << <<"db1", "1", 120>> >>
    /\ icinga2_hosts["db1"].attrs.retry_interval = 60
    /\ result["retry_interval"] = <<>>
    /\ icinga1_hosts["db1"].max_check_attempts = "1.0"
    /\ result["max_check_attempts"] = << <<"db1", "1.0", 60>> >>

\* C10 (as claimed, hosts): compare_hosts never raises on the no-SLA
\* comparison, and when it returns a host on both sides is in result['nosla']
\* if and only if (Source notes == "no-sla") differs from (Target vars.nosla
\* truthy, a missing or null vars or nosla counting as false).
C10_NoSlaBooleanEquality ==
    /\ pc # "raised"
    /\ pc = "done" =>
          \A h \in DOMAIN icinga1_hosts \cap DOMAIN icinga2_hosts :
              LET v == icinga2_hosts[h].attrs.vars
                  icinga1_nosla == icinga1_hosts[h].notes = "no-sla"
                  icinga2_nosla == v.kind = DictKind /\ v.nosla = "True"
              IN  (\E i \in DOMAIN result["nosla"] : result["nosla"][i] = h)
                      <=> (icinga1_nosla # icinga2_nosla)

----------------------------------------------------------------------------
(* Claims about compare_services *)

\* the extracted check commands of a list of services
CommandSet(services) ==
    {services[i].check_command_extracted : i \in DOMAIN services}

\* the extracted check commands line 176 paired for host h
PairedCommands(h) == {pair.command : pair \in correlation[h].paired}

SeqToSet(seq) == {seq[i] : i \in DOMAIN seq}

\* the Icinga2 services of h without the health check
Icinga2Candidates(h) ==
    SelectSeq(ServicesOf(icinga2_services_all, h),
              LAMBDA service : service.attrs.name # "nrpe-health")

\* C2 (as claimed): when compare_services returns, whenever two Icinga1
\* services of a host have the same extracted check command x, it has paired
\* none of them with an Icinga2 service whose extracted check command is x,
\* so that no notification-state or no-SLA comparison was made for x.
C2_AmbiguousNeverPaired ==
    pc = "done" =>
    \A h \in DOMAIN correlation :
        LET icinga1_services == ServicesOf(icinga1_services_all, h) IN
        \A i, j \in DOMAIN icinga1_services :
            (/\ i # j
             /\ icinga1_services[i].check_command_extracted
                    = icinga1_services[j].check_command_extracted)
            => icinga1_services[i].check_command_extracted \notin PairedCommands(h)

\* C3 (as claimed): when compare_services returns, for every host the
\* Icinga1 commands reported missing in Icinga2 and the paired commands are
\* disjoint and together are all Icinga1 commands of the host, and every
\* Icinga2 command of the host (health check removed) is paired or reported
\* in the host's entry as missing in Icinga1.
C3_MissingPartition ==
    pc = "done" =>
        \A h \in DOMAIN correlation :
            LET missing == SeqToSet(correlation[h].missing)
                paired == PairedCommands(h)
            IN  /\ missing \cup paired
                       = CommandSet(ServicesOf(icinga1_services_all, h))
                /\ missing \cap paired = {}
                /\ \A command \in CommandSet(Icinga2Candidates(h)) :
                       \/ command \in paired
                       \/ /\ h \in DOMAIN diff
                          /\ "icinga2_missing_icinga1" \in diff[h].keys

\* the scenario of C4: Icinga1 host web1 has one service, with extracted
\* command http; Icinga2 host web1 has the services http, ping and nrpe-health
C4_Scenario ==
    /\ "web1" \in DOMAIN correlation
    /\ Len(icinga1_services_all["web1"]) = 1
    /\ icinga1_services_all["web1"][1].check_command_extracted = "http"
    /\ Len(icinga2_services_all["web1"]) = 3
    /\ {icinga2_services_all["web1"][i].attrs.name : i \in 1..3}
           = {"http", "ping", "nrpe-health"}

\* the Icinga2 commands of h (health check removed) that line 176 paired
\* with no Icinga1 service
C4_UnpairedIcinga2(h) == CommandSet(Icinga2Candidates(h)) \ PairedCommands(h)

----------------------------------------------------------------------------
(* Claims about the migrators *)

\* the calls that change the Target
MutatingCalls ==
    {"schedule_host_downtime", "schedule_service_downtime", "acknowledge_host",
     "acknowledge_service", "set_host_notifications", "set_service_notifications"}

CreateCalls ==
    {"schedule_host_downtime", "schedule_service_downtime", "acknowledge_host",
     "acknowledge_service"}

\* the log entries of run r that made the call
CallsIn(r, call) == {i \in DOMAIN log : log[i].run = r /\ log[i].call = call}

\* C5: migrate_host_downtimes run twice: the second run issues no
\* schedule_host_downtime call with the existence key of a downtime the first
\* run created, and when the first run created every downtime it tried to
\* create, the Target holds as many downtimes after the second run as after
\* the first.
C5_HostDowntimesIdempotent ==
    migrator = "migrate_host_downtimes" =>
        LET first == CallsIn(1, "schedule_host_downtime")
            second == CallsIn(2, "schedule_host_downtime")
            created == {i \in first : log[i].outcome = "ok"}
        IN  /\ \A j \in second : \A i \in created : log[j].args # log[i].args
            /\ (pc = "done" /\ run = 2 /\ created = first) =>
                   Len(icinga2.downtimes)
                       = Len(icinga2_before.downtimes) + Cardinality(created)

\* C5, in the runs in which no existence query of the second run fails: the
\* second run schedules nothing the first run created
C5_IdempotentWhenQueriesAnswer ==
    (/\ migrator = "migrate_host_downtimes"
     /\ \A j \in DOMAIN log : log[j].run = 2 => log[j].query # "error") =>
        \A j \in CallsIn(2, "schedule_host_downtime") :
            \A i \in CallsIn(1, "schedule_host_downtime") :
                log[i].outcome = "ok" => log[j].args # log[i].args

\* C6: with simulate=True no migrator invokes a mutating Target operation,
\* and the Target store stays as it was before the run.
C6_SimulateNeverMutates ==
    simulate =>
        /\ \A i \in DOMAIN log : log[i].call \notin MutatingCalls
        /\ icinga2 = icinga2_before

\* a simulate run has returned after visiting a downtime the Target does not
\* hold
C6_Witness ==
    /\ migrator # None
    /\ simulate
    /\ pc = "done"
    /\ \E i \in DOMAIN log : log[i].query = "empty"

\* the comment of the existence query or of the create call of a log entry
CommentOf(r) ==
    IF "comment" \in DOMAIN r THEN r.comment ELSE r.downtime_comment

\* the Source comment of the entity of a log entry
SourceComment(e) ==
    IF migrator \in {"migrate_host_downtimes", "migrate_service_downtimes"}
    THEN entities[e.position].comment
    ELSE entities[e.position].comment_data

\* C7: in apply mode a create call (schedule downtime, acknowledge) is issued
\* only for an entity whose existence query returned no match, with the
\* comment of the query, which is the Source comment followed by the suffix;
\* an entity whose query found a match gets no create call.
C7_QueryBeforeCreate ==
    ~simulate =>
        \A i \in DOMAIN log :
            /\ log[i].call \in CreateCalls =>
                  /\ log[i].query = "empty"
                  /\ CommentOf(log[i].args) = CommentOf(log[i].filter)
                  /\ CommentOf(log[i].args) = SourceComment(log[i]) \o suffix
            /\ log[i].query = "match" => log[i].call = "none"

\* C7 with a failed existence query of a downtime counted as no match
C7_CreateOnlyWhenNotFound ==
    ~simulate =>
        \A i \in DOMAIN log :
            /\ log[i].call \in CreateCalls =>
                  /\ log[i].query \in {"empty", "error"}
                  /\ log[i].query = "error" =>
                         log[i].call \in {"schedule_host_downtime",
                                          "schedule_service_downtime"}
                  /\ CommentOf(log[i].args) = CommentOf(log[i].filter)
                  /\ CommentOf(log[i].args) = SourceComment(log[i]) \o suffix
            /\ log[i].query = "match" => log[i].call = "none"

\* the host a mutating call is about
CallHost(e) ==
    IF e.call \in {"set_host_notifications", "set_service_notifications"}
    THEN e.args.hostname ELSE e.args.host_name

\* C8: no mutating Target operation is invoked for an entity whose host is
\* not among the Target hosts, and the run is not ended by such an entity.
C8_UnresolvedNeverMutated ==
    migrator # None =>
        \A i \in DOMAIN log :
            log[i].call \in MutatingCalls =>
                CallHost(log[i]) \in icinga2_snapshot.icinga2_hosts

\* C9: no entity ends the batch: a run never stops with an exception before
\* the loop has visited every entity and the summary is logged.
C9_BatchNeverAborted == migrator # None => pc # "raised"

\* the Source services of the host whose documented service conditions an
\* update of the Target service named servicename meets: enabled in the
\* object file, disabled in the status record, exactly one Target service
\* with the extracted check command, and that one has notifications enabled
DocumentedServices(hostname, servicename) ==
    LET services == ServicesOf(icinga1.services, hostname)
        service_states == ServicesOf(icinga1.servicestatus, hostname)
        icinga2_services == ServicesOf(icinga2_snapshot.icinga2_services, hostname)
    IN  {k \in DOMAIN services :
            LET state == ServiceStates(service_states, services[k])
                target == NotificationServicesIcinga2(icinga2_services, services[k])
            IN  /\ services[k].notifications_enabled = "1"
                /\ state # <<>>
                /\ state[1].notifications_enabled = "0"
                /\ Len(target) = 1
                /\ target[1].attrs.name = servicename
                /\ target[1].attrs.enable_notifications = TRUE}

\* C21: migrate_service_notification_states issues an update of a Target
\* service only when a Source service of the host meets every documented
\* condition: enabled in the Source configuration and disabled in its status
\* record, the Source host's notifications enabled, exactly one Target
\* service with the same extracted check command, and that Target service
\* has enable_notifications true.
C21_UpdateOnlyWhenDocumented ==
    migrator = "migrate_service_notification_states" =>
        \A i \in DOMAIN log :
            log[i].call = "set_service_notifications" =>
                /\ icinga1.hosts[log[i].args.hostname].notifications_enabled = "1"
                /\ DocumentedServices(log[i].args.hostname,
                                      log[i].args.servicename) # {}

\* C21 without the condition on the Source host, which lines 107-157 never
\* read
C21_UpdateOnlyWhenServiceDiverged ==
    migrator = "migrate_service_notification_states" =>
        \A i \in DOMAIN log :
            log[i].call = "set_service_notifications" =>
                DocumentedServices(log[i].args.hostname, log[i].args.servicename) # {}

\* C26: in migrate_host_downtimes and migrate_service_downtimes with
\* simulate=False a failed existence query is never taken for "no such
\* downtime": no schedule call is issued for that downtime, and the failure
\* ends the batch.
C26_FailedQueryNeverSchedules ==
    (/\ migrator \in {"migrate_host_downtimes", "migrate_service_downtimes"}
     /\ ~simulate) =>
        \A i \in DOMAIN log :
            log[i].query = "error" =>
                /\ log[i].call = "none"
                /\ i = Len(log)
                /\ pc = "raised"

\* the Icinga2 services the migrator of service downtimes or of service
\* acknowledgements finds for the entity of a log entry
MigrationCandidates(e) ==
    LET entity == entities[e.position]
        with_description ==
            ServicesWithDescription(ServicesOf(icinga1.services, entity.host_name),
                                    entity.service_description)
        icinga2_services == ServicesOf(icinga2_snapshot.icinga2_services, entity.host_name)
    IN  IF with_description = <<>> THEN <<>>
        ELSE IF migrator = "migrate_service_downtimes"
        THEN DowntimeServicesIcinga2(icinga2_services, with_description[1])
        ELSE AckServicesIcinga2(icinga2_services, with_description[1])

\* C27: migrate_service_downtimes and migrate_service_acknowledgements
\* schedule no downtime and create no acknowledgement for an entity whose
\* Source service has more than one matching Target service.
C27_AmbiguousNeverMigrated ==
    migrator \in {"migrate_service_downtimes", "migrate_service_acknowledgements"} =>
        \A i \in DOMAIN log :
            (/\ entities[log[i].position].host_name \in icinga2_snapshot.icinga2_hosts
             /\ Len(MigrationCandidates(log[i])) > 1) =>
                log[i].call \notin CreateCalls

\* C28: migrate_host_acknowledgements skips a Source host acknowledgement as
\* already existing only if the Target holds a comment of the host itself
\* (no service) with the same host name, author and comment text plus suffix.
C28_HostAckMatchesFullIdentity ==
    migrator = "migrate_host_acknowledgements" =>
        \A i \in DOMAIN log :
            log[i].query = "match" =>
                \E j \in DOMAIN icinga2.comments :
                    /\ icinga2.comments[j].host_name = log[i].filter.host_name
                    /\ icinga2.comments[j].service_name = None
                    /\ icinga2.comments[j].author = log[i].filter.author
                    /\ icinga2.comments[j].text = log[i].filter.comment

\* the Icinga2 service t is a counterpart of the Icinga1 service s in
\* compare_services: alone on the host, it keeps the check command of s out
\* of the list of the missing services (compare.py 143-163)
CompareServicesCandidate(s, t) ==
    LET icinga2_services == FilterNrpeHealth(<<t>>) IN
    FilterSameComment(MissingByCheckCommand(CheckCommands(<<s>>),
                                            CheckCommands(icinga2_services)),
                      icinga2_services) = <<>>

\* the operations of the five service correlations that take t as a
\* candidate counterpart of s, both services of the host hostname
CorrelatingOperations(hostname, s, t) ==
    LET on_host == [h \in {hostname} |-> <<t>>] IN
    (IF CompareServicesCandidate(s, t) THEN {"compare_services"} ELSE {})
    \cup (IF ContactServicesIcinga2(on_host, s) # <<>>
          THEN {"compare_service_contacts"} ELSE {})
    \cup (IF DowntimeServicesIcinga2(<<t>>, s) # <<>>
          THEN {"migrate_service_downtimes"} ELSE {})
    \cup (IF AckServicesIcinga2(<<t>>, s) # <<>>
          THEN {"migrate_service_acknowledgements"} ELSE {})
    \cup (IF NotificationServicesIcinga2(<<t>>, s) # <<>>
          THEN {"migrate_service_notification_states"} ELSE {})

\* C30: for every Icinga1 service s and Icinga2 service t of the same host,
\* t is a candidate counterpart of s in all of compare_services,
\* compare_service_contacts, migrate_service_downtimes,
\* migrate_service_acknowledgements and migrate_service_notification_states,
\* or in none of them.
C30_SameMatchingRule ==
    \A hostname \in icinga2_snapshot.icinga2_hosts :
        LET icinga1_services == ServicesOf(icinga1.services, hostname)
            icinga2_services == ServicesOf(icinga2_snapshot.icinga2_services, hostname)
        IN  \A i \in DOMAIN icinga1_services, j \in DOMAIN icinga2_services :
                Cardinality(CorrelatingOperations(hostname, icinga1_services[i],
                                                  icinga2_services[j])) \in {0, 5}

\* the five operations agree on the services correlated by the extracted
\* check command alone
C30_SameRuleWithoutAlias ==
    \A hostname \in icinga2_snapshot.icinga2_hosts :
        LET icinga1_services == ServicesOf(icinga1.services, hostname)
            icinga2_services == ServicesOf(icinga2_snapshot.icinga2_services, hostname)
        IN  \A i \in DOMAIN icinga1_services, j \in DOMAIN icinga2_services :
                ndict_vars(icinga2_services[j], "comment") = EmptyNdict =>
                    Cardinality(CorrelatingOperations(hostname, icinga1_services[i],
                                                      icinga2_services[j])) \in {0, 5}

----------------------------------------------------------------------------
(* Claims about compare_contacts *)

\* the indices of the wrong_pager entries that name the contact
WrongPagerEntries(contact_name) == { i \in DOMAIN contacts_diff.wrong_pager : contacts_diff.wrong_pager[i][1] = contact_name }

\* normalised is pager with one leading "00" removed, pager itself when it
\* does not start with "00"
IsPagerWithout00(pager, normalised) ==
    \/ pager = <<"0", "0">> \o normalised
    \/ /\ normalised = pager
       /\ ~(Len(pager) >= 2 /\ SubSeq(pager, 1, 2) = <<"0", "0">>)

\* C11: for every Icinga1 contact the loop of compare_contacts has compared
\* that has a pager and an Icinga2 user of its name, wrong_pager has an entry
\* for the contact if and only if its pager without one leading "00" differs
\* from the pager of the user, and the entry holds these two pagers; pager
\* 0049123456 equals 49123456 and 123456 equals 123456.
C11_PagerNormalisation ==
    /\ pc # "raised" =>
       \A i \in 1..(contact_position - 1) :
          LET contact == icinga1_contacts[i]
              users == Icinga2ContactsNamed(icinga2_contacts, contact.contact_name)
          IN  (contact.pager \notin {AbsentPager, NonePager} /\ users # <<>>) =>
                 \E normalised \in Pagers :
                    /\ IsPagerWithout00(contact.pager, normalised)
                    /\ (WrongPagerEntries(contact.contact_name) # {}) <=> (normalised # users[1].attrs.pager)
                    /\ \A e \in WrongPagerEntries(contact.contact_name) :
                          contacts_diff.wrong_pager[e] = <<contact.contact_name, normalised, users[1].attrs.pager>>
    /\ StripLeading00(<<"0", "0", "4", "9", "1", "2", "3", "4", "5", "6">>) = <<"4", "9", "1", "2", "3", "4", "5", "6">>
    /\ StripLeading00(<<"1", "2", "3", "4", "5", "6">>) = <<"1", "2", "3", "4", "5", "6">>

\* compare_contacts returned after comparing pager 0049123456 of alice with
\* pager 49123456 of the user alice, without an entry, and pager 004 of bob
\* with the empty pager of the user bob, with an entry
C11_Witness ==
    /\ pc = "done"
    /\ Len(icinga1_contacts) = 2
    /\ Len(icinga2_contacts) = 2
    /\ icinga1_contacts[1].pager = <<"0", "0", "4", "9", "1", "2", "3", "4", "5", "6">>
    /\ icinga2_contacts[1].attrs.pager = <<"4", "9", "1", "2", "3", "4", "5", "6">>
    /\ icinga1_contacts[2].pager = <<"0", "0", "4">>
    /\ icinga2_contacts[2].attrs.pager = <<>>
    /\ contacts_diff.wrong_pager = << <<"bob", <<"4">>, <<>>>> >>

----------------------------------------------------------------------------
(* Claims about the derivation of check_command_extracted *)

CheckPingPrefix == <<"c", "h", "e", "c", "k", "_", "p", "i", "n", "g", "_">>

----------------------------------------------------------------------------
(* Claims about the attribute comparison of compare_services *)

\* the keys of a dict of discrepancies (notification_states, nosla_diff)
DictKeys(d) == { d[i][1] : i \in DOMAIN d }

PairKey(pair) == <<pair.icinga1.check_command, pair.icinga1.service_description>>

\* C13 (as claimed): for every pair of compare_services the Icinga1 value is
\* (notifications_enabled == "1") of the status record of the service when
\* there is one and of the service object otherwise, the Icinga2 value is
\* original_attributes.enable_notifications when present and
\* attrs.enable_notifications otherwise, and notification_states has an entry
\* for the pair if and only if the two values differ; computing the two
\* values does not raise.
C13_NotificationComparison ==
    \A h \in DOMAIN correlation :
       \A pair \in correlation[h].paired :
          LET status == Icinga1State(ServicesOf(icinga1_service_status_all, h),
                                     pair.icinga1.check_command, pair.icinga1.service_description)
              icinga1_enabled == IF status # <<>> THEN status[1].notifications_enabled = "1"
                                 ELSE pair.icinga1.notifications_enabled = "1"
              original == pair.icinga2.attrs.original_attributes
              icinga2_enabled == IF original.kind = DictKind /\ original.enable_notifications # Absent
                                 THEN original.enable_notifications = "True"
                                 ELSE pair.icinga2.attrs.enable_notifications = "True"
          IN  /\ (PairKey(pair) \in DictKeys(correlation[h].notification_states))
                     <=> (icinga1_enabled # icinga2_enabled)
              /\ pair.icinga2.attrs.notes_url # Absent => pc # "raised"

\* C16 (as claimed): when compare_services returns, for every pair the
\* notes_url of the Icinga1 service ('' when it has none) differs from
\* attrs.notes_url of the Icinga2 service if and only if the host is in diff
\* with a notesurl_diff entry.
C16_NotesUrlDiscrepancy ==
    pc = "done" =>
       \A h \in DOMAIN correlation :
          \A pair \in correlation[h].paired :
             LET icinga1_notes == IF pair.icinga1.notes_url = Absent THEN "" ELSE pair.icinga1.notes_url
                 icinga2_notes == pair.icinga2.attrs.notes_url
             IN  (icinga1_notes # icinga2_notes)
                    <=> (h \in DOMAIN diff /\ "notesurl_diff" \in diff[h].keys)

\* C17 (as claimed): when compare_services returns, the lists
\* notification_states and nosla_diff of the entry of a host in diff hold one
\* element for each discrepancy found, and an element is the record of the
\* discrepancy, not one of the strings 'command', 'icinga1', 'icinga2'.
C17_OneRecordPerDiscrepancy ==
    pc = "done" =>
       \A h \in DOMAIN diff :
          /\ Len(diff[h].notification_states) = Len(correlation[h].notification_states)
          /\ Len(diff[h].nosla_diff) = Len(correlation[h].nosla_diff)
          /\ \A i \in DOMAIN diff[h].notification_states :
                diff[h].notification_states[i] \notin {"command", "icinga1", "icinga2"}
          /\ \A i \in DOMAIN diff[h].nosla_diff :
                diff[h].nosla_diff[i] \notin {"command", "icinga1", "icinga2"}

\* C20 (as claimed, compare_services): compare_services never raises, and
\* when the loop has visited a host all pairs of its services have been
\* compared.
C20_ComparisonNeverRaises ==
    /\ pc # "raised"
    /\ \A h \in DOMAIN correlation :
          \A command \in CommandSet(ServicesOf(icinga1_services_all, h))
                            \cap CommandSet(FilterNrpeHealth(ServicesOf(icinga2_services_all, h))) :
             command \in PairedCommands(h)

----------------------------------------------------------------------------
(* Claims about compare_service_contacts *)

\* the entries of the returned diff for an Icinga1 service
ServiceContactEntries(service) == { i \in DOMAIN sc_diff : sc_diff[i] = <<service.host_name, service.check_command_extracted>> }

\* the Icinga1 service at position i has the contacts 'dummy' and an Icinga2
\* counterpart
DummyWithCounterpart(i) ==
    /\ sc_icinga1_services[i].contacts = {"dummy"}
    /\ ContactServicesIcinga2(sc_icinga2_services, sc_icinga1_services[i]) # <<>>

C15_HealthCheckNeverCounterpart == \A e \in DOMAIN sc_log : sc_log[e].icinga2_service # "nrpe-health"

----------------------------------------------------------------------------
(* Claims about Icinga2Config.get_objects_list *)

\* C18: get_objects_list calls the list method at most retries + 1 times;
\* every attempt but the last one raised ChunkedEncodingError; an attempt
\* that returns ends the call with its result, an attempt that raises another
\* exception ends the call with that exception, and Icinga2Error is raised
\* only after retries + 1 attempts that all raised ChunkedEncodingError.
C18_BoundedRetry ==
    /\ Len(attempts) <= retries + 1
    /\ \A i \in 1..(Len(attempts) - 1) : attempts[i].raises = "ChunkedEncodingError"
    /\ \A i \in DOMAIN attempts :
          /\ attempts[i].raises = None => (i = Len(attempts) /\ pc = "done" /\ objects_list = attempts[i])
          /\ attempts[i].raises = "Icinga2ApiException"
                => (i = Len(attempts) /\ pc = "raised" /\ objects_list = attempts[i])
    /\ pc = "done" => (attempts # <<>> /\ attempts[Len(attempts)].raises = None)
    /\ objects_list.raises = "Icinga2Error"
          => /\ Len(attempts) = retries + 1
             /\ \A i \in DOMAIN attempts : attempts[i].raises = "ChunkedEncodingError"

\* with retries 2, Icinga2Error was raised after three attempts
C18_Witness ==
    /\ retries = 2
    /\ pc = "raised"
    /\ objects_list.raises = "Icinga2Error"
    /\ Len(attempts) = 3

----------------------------------------------------------------------------
(* Claims about an empty Source data set *)

\* the function reads the property
Reads(function, property) == \E i \in DOMAIN Accesses(function) : Accesses(function)[i] = property

\* C19: a read of objects (of status) raises when the object (status) cache
\* files yield no record: a function never gets past such a read, and when it
\* has raised it has not reported a discrepancy nor invoked a mutating
\* operation of the Target; a function that reads an empty data set never
\* reports or mutates.
C19_EmptySourceIsFatal ==
    caller # None =>
       /\ \A i \in DOMAIN events :
             events[i] \in {"objects", "status"} => icinga1_cache[events[i]] # <<>>
       /\ pc = "raised" => \A i \in DOMAIN events : events[i] \notin {"report", "mutate"}
       /\ \A property \in {"objects", "status"} :
             (Reads(caller, property) /\ icinga1_cache[property] = <<>>)
                => /\ \A i \in DOMAIN events : events[i] \notin {"report", "mutate"}
                   /\ pc # "done"

\* migrate_host_downtimes raised at its read of the status, after its query
\* of the hosts of the Target
C19_Witness ==
    /\ caller = "migrate_host_downtimes"
    /\ icinga1_cache.status = <<>>
    /\ pc = "raised"
    /\ events = <<"icinga2", "Exception">>
    /\ Accesses(caller) = <<"icinga2", "status", "loop">>

----------------------------------------------------------------------------
(* Claims about parse_icinga_cache *)

\* the keys the block lists
BlockKeySet(block) == {k \in DOMAIN block.values : block.values[k] # Absent}

\* the record holds the pair the block lists for the key: the text, or for
\* an empty value None or the empty text
HoldsPair(record, block, k) ==
    /\ k \in DOMAIN record
    /\ IF block.values[k] = "" THEN record[k] \in {None, ""}
       ELSE record[k] = block.values[k]

\* C23: the object-cache parser distinguishes an empty value from an absent
\* key: a key a block lists with an empty value is in the parsed record with
\* value None, and a key the block does not list is not a key of the record.
C23_EmptyValueIsNotAbsent ==
    (pc = "done" /\ regex = "OBJECT_CACHE_REGEX") =>
        /\ Len(parse_result) = Len(blocks)
        /\ \A i \in DOMAIN blocks : \A k \in DOMAIN blocks[i].values :
              /\ blocks[i].values[k] = "" =>
                    k \in DOMAIN parse_result[i] /\ parse_result[i][k] = None
              /\ blocks[i].values[k] = Absent => k \notin DOMAIN parse_result[i]

\* an object cache file with a block that lists contacts with an empty value
\* and no alias has been parsed: the record has contacts None and no alias
C23_Witness ==
    /\ pc = "done"
    /\ regex = "OBJECT_CACHE_REGEX"
    /\ \E i \in DOMAIN blocks :
          /\ blocks[i].values.contacts = ""
          /\ blocks[i].values.alias = Absent
          /\ i \in DOMAIN parse_result
          /\ "contacts" \in DOMAIN parse_result[i]
          /\ parse_result[i].contacts = None
          /\ "alias" \notin DOMAIN parse_result[i]

\* C24: parse_icinga_cache returns one record per block, in file order, and
\* each record holds exactly the key/value pairs of its own block plus
\* object_type and monitoring_source.
C24_OneRecordPerBlock ==
    pc = "done" =>
        /\ Len(parse_result) = Len(blocks)
        /\ \A i \in DOMAIN blocks :
              /\ DOMAIN parse_result[i]
                     = BlockKeySet(blocks[i]) \cup {"object_type", "monitoring_source"}
              /\ parse_result[i].object_type = blocks[i].object_type
              /\ parse_result[i].monitoring_source = source
              /\ \A k \in BlockKeySet(blocks[i]) : HoldsPair(parse_result[i], blocks[i], k)

\* C24 for the object cache files, and for the status files without the
\* keys of empty value, which lines 94-102 leave out of the record
C24_OneRecordPerBlockWithoutEmptyStatus ==
    pc = "done" =>
        /\ Len(parse_result) = Len(blocks)
        /\ \A i \in DOMAIN blocks :
              LET keys == IF regex = "OBJECT_CACHE_REGEX" THEN BlockKeySet(blocks[i])
                          ELSE {k \in BlockKeySet(blocks[i]) : blocks[i].values[k] # ""}
              IN  /\ DOMAIN parse_result[i] = keys \cup {"object_type", "monitoring_source"}
                  /\ parse_result[i].object_type = blocks[i].object_type
                  /\ parse_result[i].monitoring_source = source
                  /\ \A k \in keys : HoldsPair(parse_result[i], blocks[i], k)

----------------------------------------------------------------------------
(* Claims about Icinga1Config and the indexes by hostname *)

\* the filters of the last call: its kwargs, with host_name set to the
\* hostname argument when there is one
GivenFilters ==
    LET hostname == last_call.args[1]
        kwargs == last_call.args[2]
    IN  IF hostname # None THEN DictPut(kwargs, "host_name", hostname) ELSE kwargs

\* the record has every given key with the given value
MatchesAll(o, filters) ==
    \A i \in DOMAIN filters : filters[i][1] \in DOMAIN o /\ o[filters[i][1]] = filters[i][2]

\* C22: get_services and get_hosts return exactly the records of the
\* requested object type that contain every given key with the given value,
\* each once and in source order.
C22_ConjunctiveFilters ==
    (/\ calls > 0
     /\ last_call.call \in {"get_services", "get_hosts"}
     /\ pc # "raised") =>
        LET object_type == IF last_call.call = "get_services" THEN "service" ELSE "host"
        IN  last_call.returns
                = SelectSeq(_objects,
                            LAMBDA o : HasType(o, object_type) /\ MatchesAll(o, GivenFilters))

\* get_services was called with a hostname and a check command on two
\* services of that host with different check commands, and returned one
C22_Witness ==
    /\ calls > 0
    /\ last_call.call = "get_services"
    /\ pc = "loop"
    /\ Len(GivenFilters) = 2
    /\ Len(_objects) = 2
    /\ \A i \in DOMAIN _objects :
          HasType(_objects[i], "service") /\ _objects[i].host_name = "host2"
    /\ _objects[1].check_command # _objects[2].check_command
    /\ Len(last_call.returns) = 1
\* the calls that build an index by hostname and look a hostname up
IndexCalls ==
    {"icinga1.get_services_by_hostname", "icinga1.get_servicestatus_by_host",
     "icinga2.get_services_by_hostname"}

\* the records the index of the call is built from
IndexInput(call) ==
    IF call = "icinga1.get_services_by_hostname"
    THEN SelectSeq(Loaded(_objects, cache_files.objects), LAMBDA o : HasType(o, "service"))
    ELSE IF call = "icinga1.get_servicestatus_by_host"
    THEN SelectSeq(Loaded(_status, cache_files.status),
                   LAMBDA o : HasType(o, "servicestatus"))
    ELSE services_api

\* the records of the list that belong to the host
RecordsOfHost(call, records, hostname) ==
    SelectSeq(records,
              LAMBDA r : HostNameOf(IF call = "icinga2.get_services_by_hostname"
                                    THEN "icinga2" ELSE "icinga1", r) = hostname)

\* C25: a lookup in get_services_by_hostname (Source and Target) or
\* get_servicestatus_by_host returns exactly the records of the host, each
\* once and in input order, the empty list for a hostname without records,
\* and building the index leaves the input records as they were.
C25_IndexByHostname ==
    [][(/\ calls' = calls + 1
        /\ last_call'.call \in IndexCalls
        /\ pc' # "raised") =>
           /\ last_call'.returns
                  = RecordsOfHost(last_call'.call, IndexInput(last_call'.call),
                                  last_call'.args)
           /\ _objects' \in {_objects, Loaded(_objects, cache_files.objects)}
           /\ _status' \in {_status, Loaded(_status, cache_files.status)}
           /\ cache_files' = cache_files
           /\ services_api' = services_api]_vars

\* the index of two Source services of other hosts was asked for a hostname
\* without services and returned the empty list
C25_Witness ==
    /\ calls > 0
    /\ last_call.call = "icinga1.get_services_by_hostname"
    /\ last_call.args = "gone1"
    /\ pc = "loop"
    /\ Len(_objects) = 2
    /\ \A i \in DOMAIN _objects : HasType(_objects[i], "service")
    /\ last_call.returns = <<>>
\* C29: no accessor changes the Source snapshot: after any sequence of
\* accesses every record of objects is as it was parsed and carries its
\* monitoring_source, and a later access to objects returns what the first
\* one returned.
C29_AccessorsNeverMutate ==
    /\ _objects # <<>> =>
          /\ _objects = cache_files.objects
          /\ \A i \in DOMAIN _objects : "monitoring_source" \in DOMAIN _objects[i]
    /\ (calls > 0 /\ pc = "loop" /\ last_call.call = "objects") =>
          last_call.returns = objects_first

\* C29 for every accessor but contacts: the step of the accessor leaves the
\* records of objects as they were
C29_OtherAccessorsNeverMutate ==
    [][(calls' = calls + 1 /\ last_call'.call # "contacts") =>
           _objects' \in {_objects, Loaded(_objects, cache_files.objects)}]_vars

============================================================================
